---- MODULE Spec2Model ----
(***************************************************************************)
(* Verification model of walnats: the subscription runtime                *)
(* (walnats/_actors/_actor.py, _connection.py, _priority.py, _tasks.py),  *)
(* the message context (walnats/_context.py) and the publish-side headers *)
(* (walnats/_events/_connection.py).                                      *)
(*                                                                         *)
(* Time is counted in milliseconds.  asyncio tasks are modelled at their  *)
(* suspension points: one action runs a task from the point where it is   *)
(* resumed to the next await that suspends it.                            *)
(***************************************************************************)
EXTENDS Integers, Sequences, FiniteSets, TLC

\* ------------------------------------------------------------------ bounds
MaxTime == 2        \* the clock stops advancing here
MaxDeliver == 2     \* deliveries the broker makes of one message
MaxJobs == 3        \* jobs in one batch of the priority-gate scenario
MaxSem == 3         \* capacity of the semaphore in the priority-gate scenario
MaxBody == 1        \* times a job yields inside the critical section
MaxLen == 3         \* length of a retry_delay sequence passed to _get_nak_delay
MaxAttempt == 4     \* largest attempt / num_delivered passed to a pure function
MaxDelay == 3       \* largest element of such a retry_delay sequence

\* ------------------------------------------------------- program constants
DELAY_EPS == 1      \* `delay_left > .001`, in milliseconds
HIGH == 0
NORMAL == 1
LOW == 2
None == 0 - 1       \* Python None for an optional non-negative number

Min(a, b) == IF a < b THEN a ELSE b

\* ------------------------------------------------------------ the scenario
\* Two actors: the first with an EventWithResponse, one job at a time,
\* middlewares and the default priority; the second on a plain event.
Actors == {1, 2}
actor_max_jobs == <<1, 2>>
actor_priority == <<NORMAL, HIGH>>
actor_retry_delay == << <<1, 2, 3>>, <<2>> >>
actor_with_response == <<TRUE, FALSE>>
actor_pulse == <<TRUE, FALSE>>
actor_middlewares == <<TRUE, FALSE>>

\* Two messages.  What emit()/request() can be called with for message m:
\* the actor whose event it is emitted for, delay (None or milliseconds),
\* reply (does request() add Walnats-Reply), valid (does the payload decode).
Msgs == {1, 2}
Kind(a, d, r, v) == [actor |-> a, delay |-> d, reply |-> r, valid |-> v]
MsgKinds(m) ==
    IF m = 1
    THEN {Kind(1, None, FALSE, TRUE), Kind(1, 2, TRUE, TRUE)}
    ELSE {Kind(1, None, TRUE, TRUE), Kind(1, None, FALSE, FALSE),
          Kind(2, None, TRUE, TRUE), Kind(2, 2, FALSE, TRUE)}

\* The arguments listen() is called with.
ListenArgs ==
    { [burst |-> FALSE, max_jobs |-> 1, batch |-> 2, max_polls |-> None],
      [burst |-> FALSE, max_jobs |-> 2, batch |-> 1, max_polls |-> None],
      [burst |-> TRUE,  max_jobs |-> 2, batch |-> 2, max_polls |-> 1] }

VARIABLES
    now,        \* the clock (_now), milliseconds
    args,       \* arguments of the listen() call
    cancelled,  \* listen() has been cancelled
    msg,        \* broker: per message, the stream/consumer state and headers
    loop,       \* per actor: where Actor._listen is suspended
    poll_sem, global_sem, actor_sem,   \* asyncio.Semaphore objects
    task,       \* per message: the handle_message task of its current delivery
    bg,         \* tasks started by handle_message through Tasks.start
    hist,       \* what has been observed so far (signals, calls)
    call,       \* a direct call of a pure function and its result
    gate        \* the priority-gate scenario (test_priority_one_batch)

vars == <<now, args, cancelled, msg, loop, poll_sem, global_sem, actor_sem,
          task, bg, hist, call, gate>>

\* ------------------------------------------------------- asyncio.Semaphore
\* value is _value; waiters is _waiters: the futures in arrival order, each
\* "waiting" (pending), "woken" (set_result called) or "cancelled".
Semaphore(value) == [value |-> value, waiters |-> <<>>]

Waiter(id) == [id |-> id, st |-> "waiting"]

\* locked() that never reports a taken semaphore
locked_never(s) == FALSE

locked(s) ==
    \/ s.value = 0
    \/ \E i \in DOMAIN s.waiters : s.waiters[i].st # "cancelled"

\* a release that wakes no waiter
wake_up_nobody(s) == s

wake_up_next(s) ==
    LET pending == {i \in DOMAIN s.waiters : s.waiters[i].st = "waiting"}
    IN  IF pending = {} THEN s
        ELSE LET i == CHOOSE j \in pending : \A k \in pending : j <= k
             IN  [value |-> s.value - 1,
                  waiters |-> [s.waiters EXCEPT ![i].st = "woken"]]

release(s) == wake_up_next([s EXCEPT !.value = @ + 1])

\* acquire() when not locked(): the permit is taken without suspending.
acquire_now(s) == [s EXCEPT !.value = @ - 1]

\* an acquire() whose future is served last in, first out
acquire_wait_lifo(s, id) == [s EXCEPT !.waiters = <<Waiter(id)>> \o @]

\* acquire() when locked(): a future is appended and awaited.
acquire_wait(s, id) == [s EXCEPT !.waiters = Append(@, Waiter(id))]

WaiterState(s, id) ==
    IF \E i \in DOMAIN s.waiters : s.waiters[i].id = id
    THEN LET i == CHOOSE j \in DOMAIN s.waiters : s.waiters[j].id = id
         IN  s.waiters[i].st
    ELSE "absent"

RemoveWaiter(s, id) ==
    [s EXCEPT !.waiters = SelectSeq(@, LAMBDA w : w.id # id)]

\* acquire() resumed after its future got a result.
acquire_resume(s, id) ==
    LET r == RemoveWaiter(s, id)
    IN  IF r.value > 0 THEN wake_up_next(r) ELSE r

\* acquire() resumed with CancelledError.
acquire_cancelled(s, id) ==
    LET r == RemoveWaiter(s, id)
    IN  IF WaiterState(s, id) = "woken"
        THEN wake_up_next([r EXCEPT !.value = @ + 1])
        ELSE r

\* Task.cancel() of tasks that await the future of acquire(): a pending
\* future is cancelled, one that already has its result is left alone.
CancelWaiters(s, ids) ==
    [s EXCEPT !.waiters =
        [i \in DOMAIN @ |->
            IF @[i].id \in ids /\ @[i].st = "waiting"
            THEN [@[i] EXCEPT !.st = "cancelled"] ELSE @[i]]]

\* ----------------------------------------------------------- pure functions
\* _get_nak_delay that counts attempts from one
get_nak_delay_from_one(delays, attempt) ==
    IF Len(delays) = 0 THEN 0
    ELSE IF attempt = None \/ attempt = 0 THEN delays[1]
    ELSE IF attempt > Len(delays) THEN delays[Len(delays)]
    ELSE delays[attempt]

\* Actor._get_nak_delay: delays is retry_delay, attempt is num_delivered.
get_nak_delay(delays, attempt) ==
    IF Len(delays) = 0 THEN 0
    ELSE IF attempt = None THEN delays[1]
    ELSE IF attempt >= Len(delays) THEN delays[Len(delays)]
    ELSE delays[attempt + 1]

\* attempts without the adjustment for the delay trip
attempts_unadjusted(num_delivered, delayed) ==
    IF num_delivered = None \/ num_delivered = 0 THEN 1 ELSE num_delivered

\* BaseContext.attempts: delayed is the Walnats-Delay header (None: not set).
attempts(num_delivered, delayed) ==
    LET a == IF num_delivered = None \/ num_delivered = 0
             THEN 1 ELSE num_delivered
    IN  IF a >= 2 /\ delayed # None THEN a - 1 ELSE a

\* A str is the sequence of its symbols, here one number; None where a str
\* is expected is NoneText.  A dict is a function of its keys.
Text(x) == <<x>>

NoneText == Text(None)

\* f'{x}' of a float and float(s): the text of the number, and back.
format_float(x) == Text(x)

parse_float(s) == s[1]

HEADER_ID == "Nats-Msg-Id"
HEADER_TRACE == "Walnats-Trace"
HEADER_DELAY == "Walnats-Delay"
HEADER_REPLY == "Walnats-Reply"

\* headers[key] = value
SetItem(d, key, value) ==
    [k \in DOMAIN d \cup {key} |-> IF k = key THEN value ELSE d[k]]

\* meta of emit/request: None, a dict, or a CloudEvent (d: its fields).
Meta(kind, d) == [kind |-> kind, d |-> d]

NoMeta == Meta("none", <<>>)

\* CloudEvent.as_dict / as_headers: the fields that are not None, each as
\* the header ce-<field>.
as_headers(ce) ==
    LET set == {f \in DOMAIN ce : ce[f] # NoneText}
    IN  [k \in {"ce-" \o f : f \in set} |->
            ce[CHOOSE f \in set : "ce-" \o f = k]]

\* _make_headers that lets the caller's meta win over the reserved headers
make_headers_meta_wins(uid, trace_id, delay, meta, reply) ==
    LET h0 == IF meta.kind = "ce" THEN as_headers(meta.d) ELSE meta.d
        keep(d, key, value) == IF key \in DOMAIN d THEN d
                               ELSE SetItem(d, key, value)
        h1 == IF uid # NoneText THEN keep(h0, HEADER_ID, uid)
              ELSE IF meta.kind = "ce" THEN keep(h0, HEADER_ID, meta.d["id"])
              ELSE h0
        h2 == IF trace_id # NoneText THEN keep(h1, HEADER_TRACE, trace_id)
              ELSE h1
        h3 == IF delay # None
              THEN keep(h2, HEADER_DELAY, format_float(now + delay)) ELSE h2
        h4 == IF reply # NoneText THEN keep(h3, HEADER_REPLY, reply) ELSE h3
    IN  [headers |-> h4, meta |-> meta]

\* ConnectedEvents._make_headers: the headers, and the caller's meta as the
\* call leaves it (a dict is copied before it is written to).
make_headers(uid, trace_id, delay, meta, reply) ==
    LET h0 == IF meta.kind = "none" THEN <<>>
              ELSE IF meta.kind = "dict" THEN meta.d
              ELSE as_headers(meta.d)
        h1 == IF uid # NoneText THEN SetItem(h0, HEADER_ID, uid)
              ELSE IF meta.kind = "ce"
              THEN SetItem(h0, HEADER_ID, meta.d["id"])
              ELSE h0
        h2 == IF trace_id # NoneText THEN SetItem(h1, HEADER_TRACE, trace_id)
              ELSE h1
        h3 == IF delay # None
              THEN SetItem(h2, HEADER_DELAY, format_float(now + delay))
              ELSE h2
        h4 == IF reply # NoneText THEN SetItem(h3, HEADER_REPLY, reply)
              ELSE h3
    IN  [headers |-> h4, meta |-> meta]

\* Priority.acquire without warm-up rounds
warm_up_none(priority) == 0

\* `for _ in range(self.value)` in Priority.acquire: the warm-up rounds.
warm_up_rounds(priority) == priority

\* a delay check that never delays
should_delay_never(delay_until) == FALSE

\* `if delay_str: ... if delay_left > .001` in Actor._handle_message.
should_delay(delay_until) ==
    delay_until # None /\ delay_until - now > DELAY_EPS

\* a response to every message that names an inbox, whatever the event
responds_any_event(with_response, reply) == reply # None

\* `isinstance(self.event, EventWithResponse)` and `reply is not None`.
responds(with_response, reply) == with_response /\ reply # None

\* `except asyncio.CancelledError`: handler exceptions are not caught
catches_cancel_only(exc) == exc = "cancelled"

\* `except Exception`: CancelledError is not caught
catches_exception_only(exc) == exc \in {"decode", "error", "timeout"}

\* `except (Exception, asyncio.CancelledError)` in Actor._handle_message.
catches(exc) == exc \in {"decode", "error", "timeout", "cancelled"}

\* ------------------------------------------------------------- the records
NoTask == [pc |-> "none", n |-> 0, k |-> 0, cancel |-> FALSE,
           pulse |-> "none", fail |-> "none", escaped |-> FALSE]

H(ev, m, n, v) == [ev |-> ev, m |-> m, n |-> n, v |-> v]

LoopId(a) == 100 + a

CallIdle == [fn |-> "none", delays |-> <<>>, num |-> None, hdr |-> None,
             out |-> None, done |-> TRUE]

GateIdle == [sem |-> Semaphore(0), capacity |-> 0, ready |-> <<>>,
             job |-> <<>>, results |-> <<>>]

\* the result of running a handle_message task up to its next suspension
Res(t, as, gs, b, h, ack) ==
    [task |-> t, as |-> as, gs |-> gs, bg |-> b, hist |-> h, ack |-> ack]

\* ConnectedEvents.emit / request: the message as it enters the stream of
\* the actor's event.  request() names a fresh inbox (here: the number m).
emit(m, kind) ==
    LET hd == make_headers(NoneText, NoneText, kind.delay, NoMeta,
                  IF kind.reply THEN Text(m) ELSE NoneText).headers
    IN  [st |-> "stream", actor |-> kind.actor, num_delivered |-> 0,
         avail |-> now, emitted |-> now,
         delay_until |-> IF HEADER_DELAY \in DOMAIN hd
                         THEN parse_float(hd[HEADER_DELAY]) ELSE None,
         reply |-> IF HEADER_REPLY \in DOMAIN hd
                   THEN hd[HEADER_REPLY][1] ELSE None,
         valid |-> kind.valid]

\* ------------------------------------------------------------------- Init
\* The state right after the messages were emitted and
\* ConnectedActors.listen created one task per actor.
InitListen ==
    /\ now = 0
    /\ args \in ListenArgs
    /\ cancelled = FALSE
    /\ \E ks \in [Msgs -> UNION {MsgKinds(m) : m \in Msgs}] :
            /\ \A m \in Msgs : ks[m] \in MsgKinds(m)
            /\ msg = [m \in Msgs |-> emit(m, ks[m])]
    /\ loop = [a \in Actors |-> "created"]
    /\ poll_sem = Semaphore(IF args.max_polls # None THEN args.max_polls
                            ELSE Cardinality(Actors))
    /\ global_sem = Semaphore(args.max_jobs)
    /\ actor_sem = [a \in Actors |-> Semaphore(actor_max_jobs[a])]
    /\ task = [m \in Msgs |-> NoTask]
    /\ bg = {}
    /\ hist = {}
    /\ call = CallIdle
    /\ gate = GateIdle

\* ------------------------------------------------------ clock and broker
\* The clock is read only to compare it with Walnats-Delay and with the
\* time a nak'ed message becomes deliverable again, so it is advanced only
\* while one of these lies ahead.
Tick ==
    /\ now < MaxTime
    /\ \E m \in Msgs : \/ msg[m].st = "stream" /\ msg[m].avail > now
                       \/ msg[m].st \in {"stream", "out"}
                          /\ msg[m].delay_until # None
                          /\ msg[m].delay_until > now
    /\ now' = now + 1
    /\ UNCHANGED <<args, cancelled, msg, loop, poll_sem, global_sem,
                   actor_sem, task, bg, hist, call, gate>>

\* The broker's reaction to msg.nak(delay): redeliver after the delay, unless
\* the consumer's max_deliver is used up.
Naked(r, delay) ==
    IF r.num_delivered < MaxDeliver
    THEN [r EXCEPT !.st = "stream", !.avail = now + delay]
    ELSE [r EXCEPT !.st = "dead"]

\* the actor whose consumer receives message m
Actor(m) == msg[m].actor

\* messages a fetch of actor a can return now
Fetchable(a) ==
    {m \in Msgs : Actor(m) = a /\ msg[m].st = "stream"
                  /\ msg[m].avail <= now}

\* ---------------------------------------------------- Actor._pull_and_handle
\* Where the pull loop suspends next, and the semaphores it touches on the
\* way.  `async with poll_sem` takes the permit at once when it is free.
Suspend(pc, as, gs, ps) == [pc |-> pc, as |-> as, gs |-> gs, ps |-> ps]

FromPoll(a, as, gs, ps) ==
    IF locked(ps)
    THEN Suspend("poll", as, gs, acquire_wait(ps, LoopId(a)))
    ELSE Suspend("fetch", as, gs, acquire_now(ps))

FromGlobal(a, as, gs, ps) ==
    IF locked(gs)
    THEN Suspend("bp_global", as, acquire_wait(gs, LoopId(a)), ps)
    ELSE FromPoll(a, as, gs, ps)

pull_and_handle(a, as, gs, ps) ==
    IF locked(as)
    THEN Suspend("bp_actor", acquire_wait(as, LoopId(a)), gs, ps)
    ELSE FromGlobal(a, as, gs, ps)

SetLoop(a, r) ==
    /\ loop' = [loop EXCEPT ![a] = r.pc]
    /\ actor_sem' = [actor_sem EXCEPT ![a] = r.as]
    /\ global_sem' = r.gs
    /\ poll_sem' = r.ps

\* Actor._listen starts: subscribe, create actor_sem, first iteration.
listen_start(a) ==
    /\ loop[a] = "created"
    /\ ~cancelled
    /\ SetLoop(a, pull_and_handle(a, actor_sem[a], global_sem, poll_sem))
    /\ UNCHANGED <<now, args, cancelled, msg, task, bg, hist, call, gate>>

\* `await actor_sem.acquire(); actor_sem.release()` resumed.
backpressure_actor(a) ==
    /\ loop[a] = "bp_actor"
    /\ ~cancelled
    /\ WaiterState(actor_sem[a], LoopId(a)) = "woken"
    /\ SetLoop(a, FromGlobal(a,
                release(acquire_resume(actor_sem[a], LoopId(a))),
                global_sem, poll_sem))
    /\ UNCHANGED <<now, args, cancelled, msg, task, bg, hist, call, gate>>

\* `await global_sem.acquire(); global_sem.release()` resumed.
backpressure_global(a) ==
    /\ loop[a] = "bp_global"
    /\ ~cancelled
    /\ WaiterState(global_sem, LoopId(a)) = "woken"
    /\ SetLoop(a, FromPoll(a, actor_sem[a],
                release(acquire_resume(global_sem, LoopId(a))), poll_sem))
    /\ UNCHANGED <<now, args, cancelled, msg, task, bg, hist, call, gate>>

\* `async with poll_sem` resumed: the fetch is issued.
poll_acquired(a) ==
    /\ loop[a] = "poll"
    /\ ~cancelled
    /\ WaiterState(poll_sem, LoopId(a)) = "woken"
    /\ SetLoop(a, Suspend("fetch", actor_sem[a], global_sem,
                          acquire_resume(poll_sem, LoopId(a))))
    /\ UNCHANGED <<now, args, cancelled, msg, task, bg, hist, call, gate>>

\* the next iteration entered with the poll permit of the fetch not given
\* back
AfterFetch_holding(a, ps) ==
    IF args.burst
    THEN Suspend("drain", actor_sem[a], global_sem, ps)
    ELSE pull_and_handle(a, actor_sem[a], global_sem, poll_sem)

\* After the fetch: burst mode drains, otherwise the next iteration begins.
AfterFetch(a, ps) ==
    IF args.burst
    THEN Suspend("drain", actor_sem[a], global_sem, ps)
    ELSE pull_and_handle(a, actor_sem[a], global_sem, ps)

\* psub.fetch returned the messages S: one handle_message task is started
\* for each (Tasks.start), the delivery count of each goes up by one.
fetch_messages(a, S) ==
    /\ loop[a] = "fetch"
    /\ ~cancelled
    /\ S # {} /\ S \subseteq Fetchable(a) /\ Cardinality(S) <= args.batch
    /\ msg' = [m \in Msgs |->
                IF m \in S
                THEN [msg[m] EXCEPT !.st = "out", !.num_delivered = @ + 1]
                ELSE msg[m]]
    /\ task' = [m \in Msgs |->
                IF m \in S
                THEN [NoTask EXCEPT !.pc = "created",
                                    !.n = msg[m].num_delivered + 1]
                ELSE task[m]]
    /\ SetLoop(a, AfterFetch(a, release(poll_sem)))
    /\ UNCHANGED <<now, args, cancelled, bg, hist, call, gate>>

\* psub.fetch raised TimeoutError: no message arrived within poll_delay.
fetch_timeout(a) ==
    /\ loop[a] = "fetch"
    /\ ~cancelled
    /\ Fetchable(a) = {}
    /\ SetLoop(a, AfterFetch(a, release(poll_sem)))
    /\ UNCHANGED <<now, args, cancelled, msg, task, bg, hist, call, gate>>

\* handle_message tasks of actor a that have not finished
Live(a) == {m \in Msgs : Actor(m) = a /\ task[m].pc \notin {"none", "done"}}

\* handle_message tasks of actor a that ended with an exception
Escaped(a) == {m \in Msgs : Actor(m) = a /\ task[m].escaped}

\* a Task.cancel() without effect
CancelTask_ignored(t) == t

\* Tasks.cancel(): Task.cancel() on every tracked task.  A task that waits
\* for a semaphore has the future it awaits cancelled.
CancelTask(t) == IF t.pc \in {"none", "done"} THEN t ELSE [t EXCEPT !.cancel = TRUE]

tasks_cancel(a) ==
    /\ task' = [m \in Msgs |->
                 IF Actor(m) = a THEN CancelTask(task[m]) ELSE task[m]]
    /\ bg' = {b \in bg : Actor(b.m) # a}

\* `await tasks.wait()` in burst mode: gather() of the handle_message tasks
\* finished.  An exception of one of them is raised in _listen, whose
\* finally block then cancels the supervised tasks.
tasks_wait(a) ==
    /\ loop[a] = "drain"
    /\ ~cancelled
    /\ Live(a) = {} \/ Escaped(a) # {}
    /\ IF Escaped(a) # {}
       THEN /\ loop' = [loop EXCEPT ![a] = "crashed"]
            /\ tasks_cancel(a)
            /\ global_sem' = CancelWaiters(global_sem, Live(a))
            /\ actor_sem' = [actor_sem EXCEPT ![a] = CancelWaiters(@, Live(a))]
            /\ cancelled' = TRUE
       ELSE /\ loop' = [loop EXCEPT ![a] = "returned"]
            /\ UNCHANGED <<task, bg, global_sem, actor_sem, cancelled>>
    /\ UNCHANGED <<now, args, msg, poll_sem, hist, call, gate>>

\* listen() is cancelled: gather() cancels the task of every actor.
listen_cancel ==
    /\ ~cancelled
    /\ \E a \in Actors : loop[a] \notin {"returned", "cancelled", "crashed"}
    /\ cancelled' = TRUE
    /\ LET ids == {LoopId(a) : a \in Actors}
       IN  /\ poll_sem' = CancelWaiters(poll_sem, ids)
           /\ global_sem' = CancelWaiters(global_sem, ids)
           /\ actor_sem' = [a \in Actors |-> CancelWaiters(actor_sem[a], ids)]
    /\ UNCHANGED <<now, args, msg, loop, task, bg, hist, call, gate>>

\* Actor._listen resumed with CancelledError: leave the await (giving back
\* what `async with` holds), then `finally: tasks.cancel(); unsubscribe()`.
listen_cancelled(a) ==
    /\ cancelled
    /\ loop[a] \in {"created", "bp_actor", "bp_global", "poll", "fetch", "drain"}
    /\ loop' = [loop EXCEPT ![a] = "cancelled"]
    /\ poll_sem' = CASE loop[a] = "fetch" -> release(poll_sem)
                     [] loop[a] = "poll" -> acquire_cancelled(poll_sem, LoopId(a))
                     [] OTHER -> poll_sem
    /\ IF loop[a] = "created"
       THEN UNCHANGED <<task, bg, global_sem, actor_sem>>
       ELSE /\ tasks_cancel(a)
            /\ global_sem' = CancelWaiters(
                    IF loop[a] = "bp_global"
                    THEN acquire_cancelled(global_sem, LoopId(a))
                    ELSE global_sem, Live(a))
            /\ actor_sem' = [actor_sem EXCEPT ![a] = CancelWaiters(
                    IF loop[a] = "bp_actor"
                    THEN acquire_cancelled(@, LoopId(a)) ELSE @, Live(a))]
    /\ UNCHANGED <<now, args, cancelled, msg, hist, call, gate>>

\* ---------------------------------------------------- Actor._handle_message
\* a pulse task that nobody cancels
PulseOff_never(t) == t

\* `if pulse_task is not None: pulse_task.cancel()`
PulseOff(t) == IF t.pulse = "on" THEN [t EXCEPT !.pulse = "cancelled"] ELSE t

\* an `except` branch that acks the message instead of starting the nak task
except_acks(m, exc, t, as, gs, h) ==
    Res([PulseOff(t) EXCEPT !.pc = "done", !.fail = exc, !.cancel = FALSE],
        as, gs, {},
        h \cup {H("fail_" \o exc, m, t.n, 0), H("ack", m, t.n, 0)},
        TRUE)

\* an `event` that is bound whatever was raised
event_bound(m, exc, t) == m

\* `event = None` before the try block, `event = self.event.decode(...)`
\* inside it: what `event` holds when exc is caught in the task t
event(m, exc, t) ==
    IF exc = "decode" \/ (exc = "cancelled" /\ t.pc # "running")
    THEN None ELSE m

\* The body of the `except` branch: cancel the pulse, start the nak task,
\* dispatch on_failure.  h is what was observed before.
except_body(m, exc, t, as, gs, h) ==
    LET delay == get_nak_delay(actor_retry_delay[Actor(m)],
                               msg[m].num_delivered)
    IN  Res([PulseOff(t) EXCEPT !.pc = "done", !.fail = exc, !.cancel = FALSE],
            as, gs,
            {[kind |-> "nak", m |-> m, n |-> t.n, v |-> delay]},
            h \cup {H("fail_" \o exc, m, t.n, 0),
                    H("nak_start", m, t.n, delay)}
              \cup (IF actor_middlewares[Actor(m)]
                    THEN {H("on_failure", m, t.n, event(m, exc, t))}
                    ELSE {}),
            FALSE)

\* The exception exc left the `async with` block, so both semaphores are
\* already as and gs: it is caught, or it ends the task.
Failure(m, exc, t, as, gs, h) ==
    IF catches(exc)
    THEN except_body(m, exc, t, as, gs, h)
    ELSE Res([t EXCEPT !.pc = "done", !.fail = exc, !.escaped = TRUE,
                       !.cancel = FALSE],
             as, gs, {}, h \cup {H("fail_" \o exc, m, t.n, 0)}, FALSE)

\* an `else` branch that sends no ack
Success_unacked(m, t, as, gs, h) ==
    Res([PulseOff(t) EXCEPT !.pc = "post_ack"], as, gs, {},
        h \cup {H("return", m, t.n, 0)}, FALSE)

\* The `else` branch up to `await msg.ack()`.
Success(m, t, as, gs, h) ==
    Res([PulseOff(t) EXCEPT !.pc = "post_ack"], as, gs, {},
        h \cup {H("return", m, t.n, 0), H("ack", m, t.n, 0)}, TRUE)

\* The body of the `async with`: decode, on_start hooks, the handler.
\* how is what the handler does: "return", "raise" or "await".
Body(m, how, t, as, gs) ==
    IF ~msg[m].valid
    THEN Failure(m, "decode", t, release(as), release(gs), {})
    ELSE LET h == {H("invoke", m, t.n, now)}
                  \cup (IF actor_middlewares[Actor(m)]
                        THEN {H("on_start", m, t.n,
                                attempts(msg[m].num_delivered,
                                         msg[m].delay_until))}
                        ELSE {})
         IN  CASE how = "await" ->
                    Res([t EXCEPT !.pc = "running"], as, gs, {}, h, FALSE)
               [] how = "return" ->
                    Success(m, t, release(as), release(gs), h)
               [] OTHER ->
                    Failure(m, "error", t, release(as), release(gs), h)

\* Priority.acquire entered with t.k warm-up rounds left, holding as.
priority_acquire(m, how, t, as, gs) ==
    IF locked(gs)
    THEN Res([t EXCEPT !.pc = "gate_wait"], as, acquire_wait(gs, m),
             {}, {}, FALSE)
    ELSE IF t.k > 0
    THEN Res([t EXCEPT !.pc = "gate_sleep"], as, acquire_now(gs),
             {}, {}, FALSE)
    ELSE Body(m, how, t, as, acquire_now(gs))

Commit(m, r) ==
    /\ task' = [task EXCEPT ![m] = r.task]
    /\ actor_sem' = [actor_sem EXCEPT ![Actor(m)] = r.as]
    /\ global_sem' = r.gs
    /\ bg' = bg \cup r.bg
    /\ hist' = hist \cup r.hist
    /\ msg' = IF r.ack THEN [msg EXCEPT ![m].st = "acked"] ELSE msg
    /\ UNCHANGED <<now, args, cancelled, loop, poll_sem, call, gate>>

Hows == {"return", "raise", "await"}

\* a delay check that comes after the pulse task was created
delay_return_pulsing(t) == [t EXCEPT !.pc = "done", !.pulse = "on"]

\* `await msg.nak(delay=delay_left); return`: the task is over
delay_return(t) == [t EXCEPT !.pc = "done"]

\* The first step of the task: the delay check, the pulse task, actor_sem.
handle_message_start(m, how) ==
    /\ task[m].pc = "created"
    /\ ~task[m].cancel
    /\ LET t == task[m]
           delay_left == msg[m].delay_until - now
           checked == IF msg[m].delay_until # None
                      THEN {H("delay_check", m, t.n, now)} ELSE {}
       IN  IF should_delay(msg[m].delay_until)
           THEN /\ msg' = [msg EXCEPT ![m] = Naked(@, delay_left)]
                /\ task' = [task EXCEPT ![m] = delay_return(@)]
                /\ hist' = hist \cup checked
                                 \cup {H("nak_delay", m, t.n, delay_left)}
                /\ UNCHANGED <<now, args, cancelled, loop, poll_sem,
                               global_sem, actor_sem, bg, call, gate>>
           ELSE LET t1 == [t EXCEPT
                            !.pulse = IF actor_pulse[Actor(m)]
                                      THEN "on" ELSE "none",
                            !.k = warm_up_rounds(actor_priority[Actor(m)])]
                    as == actor_sem[Actor(m)]
                    r == IF locked(as)
                         THEN Res([t1 EXCEPT !.pc = "wait_actor"],
                                  acquire_wait(as, m), global_sem,
                                  {}, {}, FALSE)
                         ELSE priority_acquire(m, how, t1, acquire_now(as),
                                               global_sem)
                IN  Commit(m, [r EXCEPT !.hist = @ \cup checked])

\* `async with actor_sem` resumed with the permit.
handle_message_actor_sem(m, how) ==
    /\ task[m].pc = "wait_actor"
    /\ ~task[m].cancel
    /\ WaiterState(actor_sem[Actor(m)], m) = "woken"
    /\ Commit(m, priority_acquire(m, how, task[m],
                    acquire_resume(actor_sem[Actor(m)], m), global_sem))

\* `async with sem` of Priority.acquire resumed with the permit.
handle_message_global_sem(m, how) ==
    /\ task[m].pc = "gate_wait"
    /\ ~task[m].cancel
    /\ WaiterState(global_sem, m) = "woken"
    /\ LET gs == acquire_resume(global_sem, m)
       IN  Commit(m,
             IF task[m].k > 0
             THEN Res([task[m] EXCEPT !.pc = "gate_sleep"],
                      actor_sem[Actor(m)], gs, {}, {}, FALSE)
             ELSE Body(m, how, task[m], actor_sem[Actor(m)], gs))

\* `await asyncio.sleep(0)` of a warm-up round resumed: release, next round.
handle_message_sleep(m, how) ==
    /\ task[m].pc = "gate_sleep"
    /\ ~task[m].cancel
    /\ Commit(m, priority_acquire(m, how, [task[m] EXCEPT !.k = @ - 1],
                    actor_sem[Actor(m)], release(global_sem)))

\* The awaited handler finished: it returned ("ok"), raised ("error") or
\* wait_for ran into job_timeout ("timeout").
handle_message_handler(m, outcome) ==
    /\ task[m].pc = "running"
    /\ ~task[m].cancel
    /\ LET as == release(actor_sem[Actor(m)])
           gs == release(global_sem)
       IN  Commit(m, IF outcome = "ok"
                     THEN Success(m, task[m], as, gs, {})
                     ELSE Failure(m, outcome, task[m], as, gs, {}))

\* After `await msg.ack()`: the response, the on_success hooks.
handle_message_acked(m) ==
    /\ task[m].pc = "post_ack"
    /\ ~task[m].cancel
    /\ LET t == task[m]
           respond == responds(actor_with_response[Actor(m)], msg[m].reply)
       IN  Commit(m, Res([t EXCEPT !.pc = "done"],
                actor_sem[Actor(m)], global_sem,
                IF respond
                THEN {[kind |-> "respond", m |-> m, n |-> t.n,
                       v |-> msg[m].reply]}
                ELSE {},
                (IF respond THEN {H("respond_start", m, t.n, msg[m].reply)}
                 ELSE {})
                \cup (IF actor_middlewares[Actor(m)]
                      THEN {H("on_success", m, t.n, 0)} ELSE {}),
                FALSE))

\* The task is resumed with CancelledError at the await it is suspended in.
handle_message_cancelled(m) ==
    /\ task[m].cancel
    /\ LET t == task[m]
           as == actor_sem[Actor(m)]
           gs == global_sem
       IN  Commit(m,
             CASE t.pc = "wait_actor" ->
                    Failure(m, "cancelled", t, acquire_cancelled(as, m), gs, {})
               [] t.pc = "gate_wait" ->
                    Failure(m, "cancelled", t, release(as),
                            acquire_cancelled(gs, m), {})
               [] t.pc \in {"gate_sleep", "running"} ->
                    Failure(m, "cancelled", t, release(as), release(gs), {})
               [] OTHER ->  \* "created", "post_ack": outside the try block
                    Res([t EXCEPT !.pc = "done", !.escaped = TRUE,
                                  !.cancel = FALSE],
                        as, gs, {}, {}, FALSE))

\* A task started with Tasks.start runs: msg.nak(delay) or publish(reply).
background_run(b) ==
    /\ b \in bg
    /\ bg' = bg \ {b}
    /\ hist' = hist \cup {H(b.kind, b.m, b.n, b.v)}
    /\ msg' = IF b.kind = "nak" /\ msg[b.m].st = "out"
                 /\ msg[b.m].num_delivered = b.n
              THEN [msg EXCEPT ![b.m] = Naked(@, b.v)]
              ELSE msg
    /\ UNCHANGED <<now, args, cancelled, loop, poll_sem, global_sem,
                   actor_sem, task, call, gate>>

\* ------------------------------------------------- calls of pure functions
\* No listen() call is running and the streams are empty.
Quiet ==
    /\ args \in {[burst |-> TRUE, max_jobs |-> 1, batch |-> 1, max_polls |-> None]}
    /\ cancelled = FALSE
    /\ msg = [m \in Msgs |-> [emit(m, Kind(1, None, FALSE, TRUE))
                               EXCEPT !.st = "acked"]]
    /\ loop = [a \in Actors |-> "returned"]
    /\ poll_sem = Semaphore(Cardinality(Actors))
    /\ global_sem = Semaphore(args.max_jobs)
    /\ actor_sem = [a \in Actors |-> Semaphore(actor_max_jobs[a])]
    /\ task = [m \in Msgs |-> NoTask]
    /\ bg = {}
    /\ hist = {}

Idle == now = 0 /\ Quiet

RECURSIVE SeqsUpTo(_, _)
SeqsUpTo(S, n) ==
    IF n = 0 THEN {<<>>}
    ELSE LET shorter == SeqsUpTo(S, n - 1)
         IN  shorter \cup {Append(q, x) : q \in shorter, x \in S}

Call(fn, delays, num, hdr) ==
    [fn |-> fn, delays |-> delays, num |-> num, hdr |-> hdr,
     out |-> None, done |-> FALSE]

\* A function is about to be called directly, as test_get_nak_delay does.
InitCall ==
    /\ Idle
    /\ gate = GateIdle
    /\ call \in {Call("get_nak_delay", d, a, None) :
                    d \in SeqsUpTo(1..MaxDelay, MaxLen),
                    a \in {None} \cup (0..MaxAttempt)}
               \cup {Call("attempts", <<>>, n, h) :
                    n \in {None} \cup (1..MaxAttempt), h \in {None, 0, 2}}

call_get_nak_delay ==
    /\ call.fn = "get_nak_delay" /\ ~call.done
    /\ call' = [call EXCEPT !.out = get_nak_delay(call.delays, call.num),
                            !.done = TRUE]
    /\ UNCHANGED <<now, args, cancelled, msg, loop, poll_sem, global_sem,
                   actor_sem, task, bg, hist, gate>>

call_attempts ==
    /\ call.fn = "attempts" /\ ~call.done
    /\ call' = [call EXCEPT !.out = attempts(call.num, call.hdr),
                            !.done = TRUE]
    /\ UNCHANGED <<now, args, cancelled, msg, loop, poll_sem, global_sem,
                   actor_sem, task, bg, hist, gate>>

\* ------------------------------------------------------------------- Next
Init == InitListen \/ InitCall

Next ==
    \/ call_get_nak_delay
    \/ call_attempts
    \/ Tick
    \/ \E a \in Actors : listen_start(a)
    \/ \E a \in Actors : backpressure_actor(a)
    \/ \E a \in Actors : backpressure_global(a)
    \/ \E a \in Actors : poll_acquired(a)
    \/ \E a \in Actors : \E S \in SUBSET Msgs : fetch_messages(a, S)
    \/ \E a \in Actors : fetch_timeout(a)
    \/ \E a \in Actors : tasks_wait(a)
    \/ listen_cancel
    \/ \E a \in Actors : listen_cancelled(a)
    \/ \E m \in Msgs : \E how \in Hows : handle_message_start(m, how)
    \/ \E m \in Msgs : \E how \in Hows : handle_message_actor_sem(m, how)
    \/ \E m \in Msgs : \E how \in Hows : handle_message_global_sem(m, how)
    \/ \E m \in Msgs : \E how \in Hows : handle_message_sleep(m, how)
    \/ \E m \in Msgs : \E o \in {"ok", "error", "timeout"} :
            handle_message_handler(m, o)
    \/ \E m \in Msgs : handle_message_acked(m)
    \/ \E m \in Msgs : handle_message_cancelled(m)
    \/ \E b \in bg : background_run(b)

Spec == Init /\ [][Next]_vars

\* The event loop keeps running: a task that was cancelled is resumed, and a
\* task started with Tasks.start gets its turn.
FairSpec ==
    /\ Spec
    /\ \A m \in Msgs : WF_vars(handle_message_cancelled(m))
    /\ \A m \in Msgs : WF_vars(\E b \in bg : b.m = m /\ background_run(b))

\* The same, and the cancelled task of every Actor._listen is resumed too.
ShutdownSpec ==
    /\ Spec
    /\ \A a \in Actors : WF_vars(listen_cancelled(a))
    /\ \A m \in Msgs : WF_vars(handle_message_cancelled(m))

\* -------------------------------------------- a broker error in the fetch
\* an `except` clause around the fetch that swallows every exception
fetch_swallows_all(exc) == TRUE

\* `except asyncio.TimeoutError: return` around psub.fetch
fetch_swallows(exc) == exc = "TimeoutError"

\* psub.fetch raised an exception other than for an empty poll.  If it is
\* not swallowed it leaves `async with poll_sem`, runs the finally block of
\* _listen (tasks.cancel(), unsubscribe) and ends the actor's task; gather()
\* raises it in listen(), whose finally block cancels every actor's task.
fetch_error(a, exc) ==
    /\ loop[a] = "fetch"
    /\ ~cancelled
    /\ hist' = hist \cup {H("fetch_error", 0, 0, a)}
    /\ IF fetch_swallows(exc)
       THEN /\ SetLoop(a, AfterFetch(a, release(poll_sem)))
            /\ UNCHANGED <<cancelled, task, bg>>
       ELSE /\ loop' = [loop EXCEPT ![a] = "crashed"]
            /\ poll_sem' = CancelWaiters(release(poll_sem),
                                         {LoopId(b) : b \in Actors})
            /\ tasks_cancel(a)
            /\ global_sem' = CancelWaiters(global_sem,
                                Live(a) \cup {LoopId(b) : b \in Actors})
            /\ actor_sem' = [b \in Actors |->
                                CancelWaiters(actor_sem[b],
                                    (IF b = a THEN Live(a) ELSE {})
                                    \cup {LoopId(b)})]
            /\ cancelled' = TRUE
    /\ UNCHANGED <<now, args, msg, call, gate>>

NextError ==
    \/ Next
    \/ \E a \in Actors : fetch_error(a, "ConnectionClosedError")

\* listen() with a broker that may fail a fetch
SpecError == Init /\ [][NextError]_vars

\* ------------------------------------- the priority gate (Priority.acquire)
\* test_priority_one_batch: gather() creates one task per job, in order; the
\* event loop runs the ready tasks first in, first out.  A job is
\* `async with prio.acquire(sem): results.append(prio); <body>` where the
\* body yields to the loop `body` times.
\* held counts the permits the job has; exc is the exception thrown into it
\* ("none", "cancelled", "error") and at the place where it was thrown.
Job(prio, body) ==
    [prio |-> prio, pc |-> "new", k |-> 0, body |-> body, left |-> body,
     held |-> 0, exc |-> "none", at |-> "none"]

Take(jb) == [jb EXCEPT !.held = @ + 1]
Drop(jb) == [jb EXCEPT !.held = @ - 1]

InitGate ==
    /\ Idle
    /\ call = CallIdle
    /\ \E n \in 1..MaxJobs, cap \in 1..MaxSem :
       \E prios \in [1..n -> {HIGH, NORMAL, LOW}], bodies \in [1..n -> 0..MaxBody] :
            gate = [sem |-> Semaphore(cap), capacity |-> cap,
                    ready |-> [j \in 1..n |-> j],
                    job |-> [j \in 1..n |-> Job(prios[j], bodies[j])],
                    results |-> <<>>]

\* jobs whose future got its result between the semaphore states s and t,
\* in the order in which call_soon scheduled their wake-up
Woken(s, t) ==
    LET w == SelectSeq(t.waiters, LAMBDA x : x.st = "woken"
                                   /\ WaiterState(s, x.id) # "woken")
    IN  [i \in DOMAIN w |-> w[i].id]

\* The job j enters the critical section with the permit: sem is the
\* semaphore, jb the job.  Result: the job, the semaphore, is j ready again.
gate_enter(jb, sem) ==
    IF jb.body > 0
    THEN [job |-> [jb EXCEPT !.pc = "cs"], sem |-> sem, again |-> TRUE,
          entered |-> TRUE]
    ELSE [job |-> Drop([jb EXCEPT !.pc = "done"]), sem |-> release(sem),
          again |-> FALSE, entered |-> TRUE]

\* `async with sem` in Priority.acquire: with jb.k warm-up rounds left.
gate_acquire(j, jb, sem) ==
    IF locked(sem)
    THEN [job |-> [jb EXCEPT !.pc = "wait"], sem |-> acquire_wait(sem, j),
          again |-> FALSE, entered |-> FALSE]
    ELSE IF jb.k > 0
    THEN [job |-> Take([jb EXCEPT !.pc = "sleep"]), sem |-> acquire_now(sem),
          again |-> TRUE, entered |-> FALSE]
    ELSE gate_enter(Take(jb), acquire_now(sem))

\* a warm-up round that keeps its permit
warm_up_keep(sem) == sem

\* the end of `async with sem: await asyncio.sleep(0)`
warm_up_release(sem) == release(sem)

\* An exception is thrown into the job at its suspension point: every
\* `async with sem` that was entered releases, an acquire() that was
\* awaiting its future gives back a permit it was already handed.
gate_exit(j, jb, sem) ==
    LET out == [jb EXCEPT !.pc = "done", !.at = jb.pc]
    IN  CASE jb.pc = "wait" ->
                [job |-> out, sem |-> acquire_cancelled(sem, j),
                 again |-> FALSE, entered |-> FALSE]
          [] jb.pc \in {"sleep", "cs"} ->
                [job |-> Drop(out), sem |-> release(sem),
                 again |-> FALSE, entered |-> FALSE]
          [] OTHER ->   \* "new": the coroutine never ran
                [job |-> out, sem |-> sem, again |-> FALSE,
                 entered |-> FALSE]

\* The event loop runs the first ready task up to its next suspension.
gate_run(j) ==
    LET jb == gate.job[j]
        sem == gate.sem
    IN  CASE jb.pc = "new" ->
                gate_acquire(j, [jb EXCEPT !.k = warm_up_rounds(jb.prio)], sem)
          [] jb.pc = "sleep" ->
                gate_acquire(j, Drop([jb EXCEPT !.k = @ - 1]),
                             warm_up_release(sem))
          [] jb.pc = "wait" ->
                IF jb.k > 0
                THEN [job |-> Take([jb EXCEPT !.pc = "sleep"]),
                      sem |-> acquire_resume(sem, j), again |-> TRUE,
                      entered |-> FALSE]
                ELSE gate_enter(Take(jb), acquire_resume(sem, j))
          [] OTHER ->   \* "cs": the body was resumed
                IF jb.left > 1
                THEN [job |-> [jb EXCEPT !.left = @ - 1], sem |-> sem,
                      again |-> TRUE, entered |-> FALSE]
                ELSE [job |-> Drop([jb EXCEPT !.pc = "done", !.left = 0]),
                      sem |-> release(sem), again |-> FALSE,
                      entered |-> FALSE]

\* the first ready task j has run up to its next suspension with result r
gate_advance(j, r) ==
    /\ gate' = [gate EXCEPT
                    !.sem = r.sem,
                    !.ready = Tail(gate.ready) \o Woken(gate.sem, r.sem)
                              \o (IF r.again THEN <<j>> ELSE <<>>),
                    !.job[j] = r.job,
                    !.results = IF r.entered
                                THEN Append(gate.results, gate.job[j].prio)
                                ELSE gate.results]
    /\ UNCHANGED <<now, args, cancelled, msg, loop, poll_sem, global_sem,
                   actor_sem, task, bg, hist, call>>

gate_step ==
    /\ gate.ready # <<>>
    /\ LET j == Head(gate.ready)
       IN  gate_advance(j, IF gate.job[j].exc # "none"
                           THEN gate_exit(j, gate.job[j], gate.sem)
                           ELSE gate_run(j))

SpecGate == InitGate /\ [][gate_step]_vars

\* Task.cancel() of job j: a pending future of acquire() is cancelled,
\* which schedules the task; otherwise the task is already scheduled and
\* gets the CancelledError when it runs.
gate_cancel(j) ==
    /\ j \in DOMAIN gate.job
    /\ gate.job[j].pc # "done"
    /\ gate.job[j].exc = "none"
    /\ gate' = [gate EXCEPT
                    !.sem = CancelWaiters(gate.sem, {j}),
                    !.ready = IF WaiterState(gate.sem, j) = "waiting"
                              THEN Append(@, j) ELSE @,
                    !.job[j].exc = "cancelled"]
    /\ UNCHANGED <<now, args, cancelled, msg, loop, poll_sem, global_sem,
                   actor_sem, task, bg, hist, call>>

\* the body of the first ready job raises when it is resumed
gate_raise ==
    /\ gate.ready # <<>>
    /\ LET j == Head(gate.ready)
           jb == gate.job[j]
       IN  /\ jb.pc = "cs"
           /\ jb.exc = "none"
           /\ gate_advance(j, gate_exit(j, [jb EXCEPT !.exc = "error"],
                                        gate.sem))

NextExit ==
    \/ gate_step
    \/ \E j \in 1 .. MaxJobs : gate_cancel(j)
    \/ gate_raise

\* a batch whose jobs may be cancelled or raise
SpecExit == InitGate /\ [][NextExit]_vars

\* A stream of HIGH jobs: a HIGH job that has left the gate is followed by
\* a new one, with a body of any length.  The list of results is not kept
\* across arrivals.
gate_arrive(j) ==
    /\ j \in DOMAIN gate.job
    /\ gate.job[j].pc = "done"
    /\ gate.job[j].prio = HIGH
    /\ \E body \in 0 .. MaxBody :
        gate' = [gate EXCEPT
                    !.ready = Append(@, j),
                    !.job[j] = [Job(HIGH, body) EXCEPT !.at = "arrived"],
                    !.results = <<>>]
    /\ UNCHANGED <<now, args, cancelled, msg, loop, poll_sem, global_sem,
                   actor_sem, task, bg, hist, call>>

NextStream ==
    \/ gate_step
    \/ \E j \in 1 .. MaxJobs : gate_arrive(j)

\* the event loop keeps running the ready tasks
SpecStream == InitGate /\ [][NextStream]_vars /\ WF_vars(gate_step)

\* ------------------------------------ ConnectedEvents.request (one call)
\* The caller has subscribed to a fresh inbox.  Every actor of Responders
\* handles the request and publishes encode_response(result) to the inbox;
\* the result of actor a is the number a.  t is the time spent in
\* sub.next_msg(timeout).
encode_response(result) == result + 10

decode_response(data) == data - 10

\* sub.next_msg that takes the newest pending message
newest_msg(queue) == queue[Len(queue)]

\* sub.next_msg: the oldest pending message of the subscription.
next_msg(queue) == Head(queue)

InitRequest ==
    /\ Idle
    /\ gate = GateIdle
    /\ \E timeout \in 1..MaxTime, R \in SUBSET (1..MaxJobs) :
        call = [fn |-> "request", pc |-> "publish", t |-> 0,
                timeout |-> timeout, pending |-> R, queue |-> <<>>,
                subscribed |-> TRUE, got |-> None, late |-> 0,
                out |-> None, err |-> "none", published |-> FALSE,
                missed |-> 0]

SetCall(c) ==
    /\ call' = c
    /\ UNCHANGED <<now, args, cancelled, msg, loop, poll_sem, global_sem,
                   actor_sem, task, bg, hist, gate>>

\* `await self._js.publish(...)` returned: actors can now see the request.
request_publish ==
    /\ call.pc = "publish"
    /\ SetCall([call EXCEPT !.pc = "next_msg", !.published = TRUE])

\* The response of actor a reaches the broker: it is queued for the inbox
\* subscription, or dropped when nobody is subscribed any more.
reply_arrives(a) ==
    /\ call.published
    /\ a \in call.pending
    /\ SetCall([call EXCEPT
            !.pending = @ \ {a},
            !.missed = IF ~call.subscribed /\ call.pc \notin {"done", "raised"}
                       THEN 1 ELSE @,
            !.queue = IF call.subscribed
                      THEN Append(@, encode_response(a)) ELSE @,
            !.late = IF call.subscribed /\ call.err # "none"
                     THEN @ + 1 ELSE @])

\* time passes while request() waits in sub.next_msg(timeout)
request_wait ==
    /\ call.pc = "next_msg"
    /\ call.t < call.timeout
    /\ SetCall([call EXCEPT !.t = @ + 1])

\* sub.next_msg returned a message.
request_next_msg ==
    /\ call.pc = "next_msg"
    /\ call.queue # <<>>
    /\ SetCall([call EXCEPT !.got = next_msg(call.queue),
                            !.pc = "unsubscribe"])

\* sub.next_msg raised nats.errors.TimeoutError.
request_timeout ==
    /\ call.pc = "next_msg"
    /\ call.queue = <<>>
    /\ call.t = call.timeout
    /\ SetCall([call EXCEPT !.err = "TimeoutError", !.pc = "unsubscribe"])

\* a finally block that leaves the subscription in place
finally_nothing(c) == c

\* `finally: await sub.unsubscribe()`
finally_unsubscribe(c) == [c EXCEPT !.subscribed = FALSE]

\* the finally block, then decode_response and return, or the exception
\* reaches the caller.
request_unsubscribe ==
    /\ call.pc = "unsubscribe"
    /\ SetCall(IF call.err = "none"
               THEN [finally_unsubscribe(call) EXCEPT
                        !.pc = "done", !.out = decode_response(call.got)]
               ELSE [finally_unsubscribe(call) EXCEPT !.pc = "raised"])

NextRequest ==
    \/ request_publish
    \/ \E a \in 1..MaxJobs : reply_arrives(a)
    \/ request_wait
    \/ request_next_msg
    \/ request_timeout
    \/ request_unsubscribe

SpecRequest == InitRequest /\ [][NextRequest]_vars

\* The same call from `inbox = self._nc.new_inbox()` on: nothing is
\* subscribed or published yet.
InitInbox ==
    /\ Idle
    /\ gate = GateIdle
    /\ \E timeout \in 1..MaxTime, R \in SUBSET (1..MaxJobs) :
        call = [fn |-> "request", pc |-> "subscribe", t |-> 0,
                timeout |-> timeout, pending |-> R, queue |-> <<>>,
                subscribed |-> FALSE, got |-> None, late |-> 0,
                out |-> None, err |-> "none", published |-> FALSE,
                missed |-> 0]

\* `sub = await self._nc.subscribe(inbox)` returned.
request_subscribe ==
    /\ call.pc = "subscribe"
    /\ SetCall([call EXCEPT !.subscribed = TRUE, !.pc = "publish"])

\* `await self._js.publish(...)` raised: nothing was published.
request_publish_error ==
    /\ call.pc = "publish"
    /\ SetCall([call EXCEPT !.err = "PublishError", !.pc = "unsubscribe"])

NextInbox ==
    \/ request_subscribe
    \/ request_publish_error
    \/ NextRequest

SpecInbox == InitInbox /\ [][NextInbox]_vars

\* --------------------------------------------- walnats._errors / register
JS_STREAM_EXISTS == 10058
JS_STREAM_CONFIG == 10052
JS_CONSUMER_EXISTS == 10013

\* An exception: its class and the err_code of a JetStream API error.
Exc(type, err_code) == [type |-> type, err_code |-> err_code]

NoExc == Exc("none", None)

\* `except BadRequestError` also matches the walnats subclasses of it.
IsBadRequestError(type) ==
    type \in {"BadRequestError", "StreamExistsError", "StreamConfigError",
              "ConsumerExistsError"}

IsServerError(type) == type = "ServerError"

\* convert_errors that treats every call as exists_ok=True
convert_errors_exists_ok(exists_ok, exc) ==
    IF IsBadRequestError(exc.type)
    THEN IF exc.err_code \in {JS_STREAM_EXISTS, JS_CONSUMER_EXISTS}
         THEN NoExc ELSE exc
    ELSE IF IsServerError(exc.type)
    THEN IF exc.err_code = JS_STREAM_CONFIG
         THEN Exc("StreamConfigError", exc.err_code) ELSE NoExc
    ELSE exc

\* convert_errors: the exception that leaves the `with` block when exc was
\* raised inside it (NoExc: none does).  The `except ServerError` branch
\* ends without a raise for any other err_code.
convert_errors(exists_ok, exc) ==
    IF IsBadRequestError(exc.type)
    THEN IF exc.err_code = JS_STREAM_EXISTS
         THEN IF exists_ok THEN NoExc
              ELSE Exc("StreamExistsError", exc.err_code)
         ELSE IF exc.err_code = JS_CONSUMER_EXISTS
         THEN IF exists_ok THEN NoExc
              ELSE Exc("ConsumerExistsError", exc.err_code)
         ELSE exc
    ELSE IF IsServerError(exc.type)
    THEN IF exc.err_code = JS_STREAM_CONFIG
         THEN Exc("StreamConfigError", exc.err_code)
         ELSE NoExc
    ELSE exc

ExcTypes == {"Exception", "BaseException", "ValueError", "TimeoutError",
             "APIError", "NotFoundError", "BadRequestError", "ServerError"}

ErrCodes == {None, 0, JS_STREAM_EXISTS, JS_STREAM_CONFIG, JS_CONSUMER_EXISTS}

\* `with convert_errors(exists_ok): raise exc`, as test_errors.py does.
InitConvert ==
    /\ Idle
    /\ gate = GateIdle
    /\ \E t \in ExcTypes, c \in ErrCodes, ok \in BOOLEAN :
        call = [fn |-> "convert_errors", exists_ok |-> ok, exc |-> Exc(t, c),
                out |-> NoExc, done |-> FALSE]

call_convert_errors ==
    /\ call.fn = "convert_errors" /\ ~call.done
    /\ SetCall([call EXCEPT !.out = convert_errors(call.exists_ok, call.exc),
                            !.done = TRUE])

SpecConvert == InitConvert /\ [][call_convert_errors]_vars

\* BaseEvent._stream_config: max_age can be updated, max_consumers cannot.
StreamConfigs == [age : {30, 60}, consumers : {10, 20}]

\* no stream of that name on the broker
NoStream == [age |-> 0, consumers |-> 0]

\* The broker's add_stream: creates the stream, accepts the configuration
\* the stream already has, refuses another one.
add_stream(stream, cfg) ==
    IF stream = NoStream THEN [stream |-> cfg, exc |-> NoExc]
    ELSE IF stream = cfg THEN [stream |-> stream, exc |-> NoExc]
    ELSE [stream |-> stream, exc |-> Exc("BadRequestError", JS_STREAM_EXISTS)]

\* The broker's update_stream.
update_stream(stream, cfg) ==
    IF stream = NoStream
    THEN [stream |-> stream, exc |-> Exc("NotFoundError", 0)]
    ELSE IF stream.consumers # cfg.consumers
    THEN [stream |-> stream, exc |-> Exc("ServerError", JS_STREAM_CONFIG)]
    ELSE [stream |-> cfg, exc |-> NoExc]

\* ConnectedEvents.register(create, update) of one event whose stream is
\* `old` on the broker.
InitRegister ==
    /\ Idle
    /\ gate = GateIdle
    /\ \E create, update \in BOOLEAN, cfg \in StreamConfigs,
          old \in StreamConfigs \cup {NoStream} :
        call = [fn |-> "register", create |-> create, update |-> update,
                cfg |-> cfg, old |-> old, stream |-> old, pc |-> "start",
                calls |-> <<>>, err |-> NoExc]

\* BaseEvent._sync: `if create: with convert_stream_errors(exists_ok=update):
\* await js.add_stream(...); return`
sync_add_stream ==
    /\ call.fn = "register" /\ call.pc = "start" /\ call.create
    /\ LET r == add_stream(call.stream, call.cfg)
           e == convert_errors(call.update, r.exc)
           c == [call EXCEPT !.stream = r.stream,
                             !.calls = Append(@, "add_stream")]
       IN  SetCall(IF r.exc = NoExc THEN [c EXCEPT !.pc = "done"]
                   ELSE IF e = NoExc THEN [c EXCEPT !.pc = "added"]
                   ELSE [c EXCEPT !.pc = "raised", !.err = e])

\* `if update: with convert_stream_errors(): await js.update_stream(...)`
sync_update_stream ==
    /\ call.fn = "register" /\ call.update
    /\ call.pc = "added" \/ (call.pc = "start" /\ ~call.create)
    /\ LET r == update_stream(call.stream, call.cfg)
           e == convert_errors(FALSE, r.exc)
           c == [call EXCEPT !.stream = r.stream,
                             !.calls = Append(@, "update_stream")]
       IN  SetCall(IF e = NoExc THEN [c EXCEPT !.pc = "done"]
                   ELSE [c EXCEPT !.pc = "raised", !.err = e])

\* neither branch is taken (create and update are false)
sync_return ==
    /\ call.fn = "register" /\ ~call.update
    /\ call.pc = "added" \/ (call.pc = "start" /\ ~call.create)
    /\ SetCall([call EXCEPT !.pc = "done"])

NextRegister == sync_add_stream \/ sync_update_stream \/ sync_return

SpecRegister == InitRegister /\ [][NextRegister]_vars

\* ------------------------------------------- the headers of emit/request
\* `headers or None`: an empty dict is not passed on.
or_none(headers) ==
    IF headers = <<>> THEN [none |-> TRUE, headers |-> <<>>]
    ELSE [none |-> FALSE, headers |-> headers]

MetaDicts ==
    {<<>>,
     [k \in {"hello"} |-> Text(5)],
     [k \in {HEADER_ID} |-> Text(6)],
     [k \in {"hello", HEADER_ID, HEADER_TRACE} |-> Text(6)],
     [k \in {HEADER_DELAY, HEADER_REPLY} |-> Text(7)]}

CloudEvents ==
    [id : {Text(3)}, source : {Text(4)}, type : {Text(4)},
     specversion : {Text(1)}, subject : {NoneText, Text(8)}]

Metas ==
    {NoMeta} \cup {Meta("dict", d) : d \in MetaDicts}
             \cup {Meta("ce", c) : c \in CloudEvents}

\* conn.emit(event, message, ...) or conn.request(event, message, ...) is
\* about to build its headers; request() has made the inbox Text(9).
InitHeaders ==
    /\ now \in 0..MaxTime
    /\ Quiet
    /\ gate = GateIdle
    /\ \E fn \in {"emit", "request"}, sync \in BOOLEAN,
          uid \in {NoneText, Text(1)}, trace_id \in {NoneText, Text(2)},
          delay \in {None, 0, MaxDelay}, meta \in Metas :
        /\ fn = "request" => ~sync
        /\ call = [fn |-> fn, sync |-> sync, uid |-> uid,
                   trace_id |-> trace_id, delay |-> delay, meta |-> meta,
                   done |-> FALSE, meta_after |-> meta,
                   sent |-> or_none(<<>>)]

\* emit: `self._js.publish(..., headers=headers)` when sync, else
\* `self._nc.publish(..., headers=headers or None)`;
\* request: `self._js.publish(..., headers=headers)` with reply=inbox.
call_publish ==
    /\ call.fn \in {"emit", "request"} /\ ~call.done
    /\ LET r == make_headers(call.uid, call.trace_id, call.delay, call.meta,
                    IF call.fn = "request" THEN Text(9) ELSE NoneText)
       IN  SetCall([call EXCEPT
                !.done = TRUE,
                !.meta_after = r.meta,
                !.sent = IF call.fn = "emit" /\ ~call.sync
                         THEN or_none(r.headers)
                         ELSE [none |-> FALSE, headers |-> r.headers]])

SpecHeaders == InitHeaders /\ [][call_publish]_vars

\* ------------------------------------------- listen(burst=True), timed
\* One listen(burst=True, batch=1) call of n actors measured on the clock
\* call.t.  Actor a has at most one message in its stream (avail[a]) whose
\* handler awaits for dur[a] ticks.  psub.fetch returns at once when a
\* message is there and raises TimeoutError after PollDelay otherwise.  A
\* step that can run is run before the clock advances.  job[a] is the
\* handle_message task of actor a, fetches[a] counts the fetches it issued,
\* had[a] tells whether a message was in the stream when listen() began.
PollDelay == 2

\* no run of the scenario takes longer than this
MaxClock == (PollDelay + MaxBody) * MaxJobs + 1

InitBurst ==
    /\ Idle
    /\ gate = GateIdle
    /\ \E n \in 1..MaxJobs :
       \E polls \in 1..n, jobs \in 1..MaxSem,
          avail \in [1..n -> BOOLEAN], dur \in [1..n -> 0..MaxBody] :
        call = [fn |-> "burst", t |-> 0, n |-> n, polls |-> polls,
                avail |-> avail, had |-> avail, dur |-> dur,
                listen |-> "gather",
                loop |-> [a \in 1..n |-> "created"],
                since |-> [a \in 1..n |-> 0],
                fetches |-> [a \in 1..n |-> 0],
                job |-> [a \in 1..n |-> "none"],
                ps |-> Semaphore(polls), gs |-> Semaphore(jobs),
                as |-> [a \in 1..n |-> Semaphore(1)]]

BurstActors == IF call.fn = "burst" THEN 1..call.n ELSE {}

\* the pull loop of actor a suspends as r says
BurstLoop(a, r) ==
    [call EXCEPT !.loop[a] = r.pc, !.as[a] = r.as, !.gs = r.gs, !.ps = r.ps,
                 !.since[a] = call.t,
                 !.fetches[a] = IF r.pc = "fetch" THEN @ + 1 ELSE @]

burst_listen_start(a) ==
    /\ call.loop[a] = "created"
    /\ SetCall(BurstLoop(a, pull_and_handle(a, call.as[a], call.gs, call.ps)))

burst_backpressure(a) ==
    /\ call.loop[a] = "bp_global"
    /\ WaiterState(call.gs, LoopId(a)) = "woken"
    /\ SetCall(BurstLoop(a, FromPoll(a, call.as[a],
                release(acquire_resume(call.gs, LoopId(a))), call.ps)))

burst_poll_acquired(a) ==
    /\ call.loop[a] = "poll"
    /\ WaiterState(call.ps, LoopId(a)) = "woken"
    /\ SetCall(BurstLoop(a, Suspend("fetch", call.as[a], call.gs,
                                    acquire_resume(call.ps, LoopId(a)))))

\* psub.fetch returned the message: its task is started, then `if burst:
\* await tasks.wait()`.
burst_fetch_message(a) ==
    /\ call.loop[a] = "fetch"
    /\ call.avail[a]
    /\ SetCall([BurstLoop(a, Suspend("drain", call.as[a], call.gs,
                                     release(call.ps)))
                EXCEPT !.avail[a] = FALSE, !.job[a] = "created"])

BurstTimeoutDue(a) ==
    /\ call.loop[a] = "fetch"
    /\ ~call.avail[a]
    /\ call.t >= call.since[a] + PollDelay

\* psub.fetch raised TimeoutError: `return`, then the drain of no task.
burst_fetch_timeout(a) ==
    /\ BurstTimeoutDue(a)
    /\ SetCall(BurstLoop(a, Suspend("drain", call.as[a], call.gs,
                                    release(call.ps))))

\* handle_message up to the handler: `async with actor_sem, global_sem`.
burst_job_start(a) ==
    /\ call.job[a] = "created"
    /\ SetCall(IF locked(call.gs)
               THEN [call EXCEPT !.job[a] = "wait",
                                 !.as[a] = acquire_now(@),
                                 !.gs = acquire_wait(@, a)]
               ELSE [call EXCEPT !.job[a] = "running",
                                 !.as[a] = acquire_now(@),
                                 !.gs = acquire_now(@),
                                 !.since[a] = call.t])

burst_job_resume(a) ==
    /\ call.job[a] = "wait"
    /\ WaiterState(call.gs, a) = "woken"
    /\ SetCall([call EXCEPT !.job[a] = "running",
                            !.gs = acquire_resume(@, a),
                            !.since[a] = call.t])

BurstJobDue(a) ==
    /\ call.job[a] = "running"
    /\ call.t >= call.since[a] + call.dur[a]

\* the handler returned: both semaphores are released, the message acked.
burst_job_done(a) ==
    /\ BurstJobDue(a)
    /\ SetCall([call EXCEPT !.job[a] = "done", !.as[a] = release(@),
                            !.gs = release(@)])

\* `await tasks.wait()` finished, `return`.
burst_drained(a) ==
    /\ call.loop[a] = "drain"
    /\ call.job[a] \in {"none", "done"}
    /\ SetCall([call EXCEPT !.loop[a] = "returned"])

\* `await asyncio.gather(*tasks)` in ConnectedActors.listen finished.
burst_listen_return ==
    /\ call.fn = "burst" /\ call.listen = "gather"
    /\ \A a \in BurstActors : call.loop[a] = "returned"
    /\ SetCall([call EXCEPT !.listen = "returned"])

\* some task of the event loop is ready to run
BurstReady ==
    \/ call.listen = "gather"
       /\ \A a \in BurstActors : call.loop[a] = "returned"
    \/ \E a \in BurstActors :
        \/ call.loop[a] = "created"
        \/ call.loop[a] = "bp_global"
           /\ WaiterState(call.gs, LoopId(a)) = "woken"
        \/ call.loop[a] = "poll" /\ WaiterState(call.ps, LoopId(a)) = "woken"
        \/ call.loop[a] = "fetch" /\ call.avail[a]
        \/ BurstTimeoutDue(a)
        \/ call.job[a] = "created"
        \/ call.job[a] = "wait" /\ WaiterState(call.gs, a) = "woken"
        \/ BurstJobDue(a)
        \/ call.loop[a] = "drain" /\ call.job[a] \in {"none", "done"}

\* the clock advances while every task waits
burst_tick ==
    /\ call.fn = "burst" /\ call.listen = "gather"
    /\ ~BurstReady
    /\ call.t < MaxClock
    /\ SetCall([call EXCEPT !.t = @ + 1])

NextBurst ==
    \/ \E a \in BurstActors : burst_listen_start(a)
    \/ \E a \in BurstActors : burst_backpressure(a)
    \/ \E a \in BurstActors : burst_poll_acquired(a)
    \/ \E a \in BurstActors : burst_fetch_message(a)
    \/ \E a \in BurstActors : burst_fetch_timeout(a)
    \/ \E a \in BurstActors : burst_job_start(a)
    \/ \E a \in BurstActors : burst_job_resume(a)
    \/ \E a \in BurstActors : burst_job_done(a)
    \/ \E a \in BurstActors : burst_drained(a)
    \/ burst_listen_return
    \/ burst_tick

\* The event loop runs every task that is ready, and time passes.
SpecBurst == InitBurst /\ [][NextBurst]_vars /\ WF_vars(NextBurst)

\* ------------------------------- one delivery with a middleware installed
\* Actor._handle_message for one message of an actor whose middlewares are
\* () or (mw,).  Each hook of mw returns None ("none"), returns a coroutine
\* ("deferred": it is handed to tasks.start) or raises ("raise").
HookBehaviours == {"none", "deferred", "raise"}

Middlewares ==
    [installed : {TRUE}, on_start : HookBehaviours,
     on_success : HookBehaviours, on_failure : HookBehaviours]
    \cup {[installed |-> FALSE, on_start |-> "none", on_success |-> "none",
           on_failure |-> "none"]}

InitHooks ==
    /\ Idle
    /\ gate = GateIdle
    /\ \E mw \in Middlewares, valid \in BOOLEAN,
          how \in {"return", "raise", "await_return", "await_raise"} :
        call = [fn |-> "handle_message", mw |-> mw, valid |-> valid,
                how |-> how, pc |-> "start", invoked |-> FALSE,
                acked |-> FALSE, naked |-> FALSE, escaped |-> FALSE,
                started |-> {}, cancelled |-> FALSE, triggered |-> <<>>]

\* `for mw in self.middlewares: coro = mw.<hook>(ctx); if coro is not None:
\* tasks.start(coro)`: the call record after the loop; .raised tells that
\* the hook raised.
run_hook(c, hook) ==
    LET called == [c EXCEPT !.triggered = Append(@, hook)]
    IN  IF ~c.mw.installed THEN [c |-> c, raised |-> FALSE]
        ELSE IF c.mw[hook] = "none" THEN [c |-> called, raised |-> FALSE]
        ELSE IF c.mw[hook] = "deferred"
        THEN [c |-> [called EXCEPT !.started = @ \cup {hook}],
              raised |-> FALSE]
        ELSE [c |-> called, raised |-> TRUE]

\* an `except` branch that only starts the nak task
hook_except_silent(c) ==
    [c EXCEPT !.naked = TRUE, !.pc = "done", !.triggered = Append(@, "nak")]

\* the `except` branch: start the nak task, then the on_failure hooks
hook_except(c) ==
    LET r == run_hook([c EXCEPT !.naked = TRUE, !.pc = "done",
                                !.triggered = Append(@, "nak")],
                      "on_failure")
    IN  IF r.raised THEN [r.c EXCEPT !.escaped = TRUE] ELSE r.c

\* the `else` branch up to `await msg.ack()`
hook_else(c) ==
    [c EXCEPT !.acked = TRUE, !.pc = "post_ack",
              !.triggered = Append(@, "ack")]

\* the try block up to the first await: decode, on_start hooks, handler
hook_try ==
    /\ call.fn = "handle_message" /\ call.pc = "start"
    /\ LET r == run_hook(call, "on_start")
           c == [r.c EXCEPT !.invoked = TRUE,
                            !.triggered = Append(@, "handler")]
       IN  SetCall(
             IF ~call.valid THEN hook_except(call)
             ELSE IF r.raised THEN hook_except(r.c)
             ELSE CASE call.how = "return" -> hook_else(c)
                    [] call.how = "raise" -> hook_except(c)
                    [] OTHER -> [c EXCEPT !.pc = "running"])

\* the awaited handler finished
hook_handler_done ==
    /\ call.fn = "handle_message" /\ call.pc = "running"
    /\ SetCall(IF call.how = "await_return" THEN hook_else(call)
               ELSE hook_except(call))

\* after `await msg.ack()`: the on_success hooks
hook_acked ==
    /\ call.fn = "handle_message" /\ call.pc = "post_ack"
    /\ LET r == run_hook([call EXCEPT !.pc = "done"], "on_success")
       IN  SetCall(IF r.raised THEN [r.c EXCEPT !.escaped = TRUE] ELSE r.c)

\* a task started for a deferred hook runs
hook_deferred_run(hook) ==
    /\ call.fn = "handle_message"
    /\ hook \in call.started
    /\ SetCall([call EXCEPT !.started = @ \ {hook}])

NextHooks ==
    \/ hook_try
    \/ hook_handler_done
    \/ hook_acked
    \/ \E hook \in {"on_start", "on_success", "on_failure"} :
            hook_deferred_run(hook)

SpecHooks == InitHooks /\ [][NextHooks]_vars

\* the task is cancelled while it is suspended: in the handler the
\* CancelledError is caught by the except branch, in `await msg.ack()` it
\* ends the task
hook_cancel ==
    /\ call.fn = "handle_message"
    /\ call.pc \in {"running", "post_ack"}
    /\ LET c == [call EXCEPT !.cancelled = TRUE]
       IN  SetCall(IF call.pc = "running" THEN hook_except(c)
                   ELSE [c EXCEPT !.pc = "done", !.escaped = TRUE])

NextOrder == NextHooks \/ hook_cancel

\* one delivery that may be cancelled on the way
SpecOrder == InitHooks /\ [][NextOrder]_vars

\* --------------------------------------------- pulse and the ack deadline
\* One message of an actor with the given ack_wait and pulse, on a clock of
\* half-ack_wait granularity.  The consumer redelivers a message that is
\* neither acked nor reported in progress within ack_wait; a pull request
\* of the actor is outstanding whenever that happens (free job slots).
MaxDur == 5
AckWaits == {2, 4}
PulseClock == MaxDeliver * (MaxDur + 1)

\* the first sleep of Actor._pulse, with a sleep that outlasts ack_wait
pulse_sleep_long(ack_wait) == ack_wait + 1

\* `await asyncio.sleep(self.ack_wait / 2)`
pulse_sleep(ack_wait) == ack_wait \div 2

InitPulse ==
    /\ Idle
    /\ gate = GateIdle
    /\ \E pulse \in BOOLEAN, ack_wait \in AckWaits :
        call = [fn |-> "pulse", pulse |-> pulse, ack_wait |-> ack_wait,
                t |-> 0, deadline |-> 0, acked |-> FALSE, jobs |-> <<>>]

PulseJobs == IF call.fn = "pulse" THEN DOMAIN call.jobs ELSE {}

\* the consumer has the message to (re)deliver
RedeliveryDue ==
    /\ ~call.acked
    /\ Len(call.jobs) < MaxDeliver
    /\ call.t >= call.deadline

\* the message is fetched and its handle_message task runs up to the
\* handler's first await: the pulse task is created and starts its sleep
pulse_dispatch ==
    /\ call.fn = "pulse"
    /\ RedeliveryDue
    /\ \E dur \in 0 .. MaxDur, ok \in BOOLEAN :
        SetCall([call EXCEPT
            !.deadline = call.t + call.ack_wait,
            !.jobs = Append(@,
                [pc |-> "running", start |-> call.t, dur |-> dur, ok |-> ok,
                 signals |-> 0,
                 pulse_at |-> IF call.pulse
                              THEN call.t + pulse_sleep(call.ack_wait)
                              ELSE None])])

PulseDue(j) ==
    /\ call.jobs[j].pc = "running"
    /\ call.jobs[j].pulse_at = call.t

\* Actor._pulse: the sleep is over, `await msg.in_progress()` resets the
\* deadline of the message, and the next sleep starts
pulse_in_progress(j) ==
    /\ call.fn = "pulse"
    /\ j \in PulseJobs
    /\ PulseDue(j)
    /\ SetCall([call EXCEPT
            !.deadline = call.t + call.ack_wait,
            !.jobs[j].signals = @ + 1,
            !.jobs[j].pulse_at = call.t + pulse_sleep(call.ack_wait)])

HandlerDue(j) ==
    /\ call.jobs[j].pc = "running"
    /\ call.jobs[j].start + call.jobs[j].dur = call.t

\* the handler returns or raises: pulse_task.cancel(), then ack or nak
pulse_handler_done(j) ==
    /\ call.fn = "pulse"
    /\ j \in PulseJobs
    /\ HandlerDue(j)
    /\ SetCall([call EXCEPT
            !.jobs[j].pc = "done",
            !.jobs[j].pulse_at = None,
            !.acked = @ \/ call.jobs[j].ok,
            !.deadline = IF call.jobs[j].ok THEN @ ELSE call.t])

\* time passes once everything due at this instant has happened
pulse_tick ==
    /\ call.fn = "pulse"
    /\ call.t < PulseClock
    /\ ~RedeliveryDue
    /\ \A j \in PulseJobs : ~PulseDue(j) /\ ~HandlerDue(j)
    /\ SetCall([call EXCEPT !.t = @ + 1])

NextPulse ==
    \/ pulse_dispatch
    \/ \E j \in 1 .. MaxDeliver : pulse_in_progress(j)
    \/ \E j \in 1 .. MaxDeliver : pulse_handler_done(j)
    \/ pulse_tick

SpecPulse == InitPulse /\ [][NextPulse]_vars

\* ------------------------------------------------ ErrorThresholdMiddleware
\* One ErrorThresholdMiddleware shared by the actors, wrapping a middleware
\* that records the hooks it gets.  `last` is the latest hook called on the
\* wrapper and whether the wrapped middleware got it; n / fwd count the
\* failures handled and forwarded since the last success of any actor,
\* n_a / fwd_a those of each actor since its own last success, as long as
\* every failure was a first delivery (`retried` otherwise).
MaxFail == 40
MaxOther == 2
\* a limit no counter of the scenario gets to
OutOfReach == MaxFail + MaxOther
Thresholds == {0, 1, 20, OutOfReach}

\* how many failures in a row the scenario gives to each actor
FailCap(a) == IF a = 1 THEN MaxFail ELSE MaxOther

InitThreshold ==
    /\ Idle
    /\ gate = GateIdle
    /\ \E total \in Thresholds, actor \in Thresholds :
        call = [fn |-> "threshold",
                total_failures |-> total, actor_failures |-> actor,
                message_failures |-> 1,
                _overall |-> 0, _per_actor |-> [a \in Actors |-> 0],
                last |-> [hook |-> "none", forwarded |-> FALSE],
                retried |-> FALSE,
                n |-> 0, fwd |-> 0,
                n_a |-> [a \in Actors |-> 0], fwd_a |-> [a \in Actors |-> 0]]

\* ErrorThresholdMiddleware.on_failure with the counters one behind: a
\* failure is forwarded as soon as a counter has reached its limit
forward_on_reach(c, a, tries) ==
    \/ c._overall >= c.total_failures
    \/ c._per_actor[a] >= c.actor_failures
    \/ tries > c.message_failures

\* ErrorThresholdMiddleware.on_failure: is the failure forwarded (a missing
\* _per_actor entry reads as 0: setdefault(actor_name, 0))
forward(c, a, tries) ==
    \/ c._overall > c.total_failures
    \/ c._per_actor[a] > c.actor_failures
    \/ tries > c.message_failures

\* ErrorThresholdMiddleware.on_success with nothing reset
on_success_keeps(c, a) == c

\* ErrorThresholdMiddleware.on_success: `self._overall = 0;
\* self._per_actor.pop(actor_name, None)` (a popped entry reads as 0)
on_success(c, a) == [c EXCEPT !._overall = 0, !._per_actor[a] = 0]

\* ErrorThresholdMiddleware.on_failure: a suppressed failure is counted,
\* a forwarded one is not
on_failure(c, a, tries) ==
    IF forward(c, a, tries) THEN c
    ELSE [c EXCEPT !._overall = @ + 1, !._per_actor[a] = @ + 1]

threshold_on_start(a) ==
    /\ call.fn = "threshold"
    /\ SetCall([call EXCEPT !.last = [hook |-> "on_start", forwarded |-> TRUE]])

threshold_on_success(a) ==
    /\ call.fn = "threshold"
    /\ SetCall([on_success(call, a) EXCEPT
            !.last = [hook |-> "on_success", forwarded |-> TRUE],
            !.n = 0, !.fwd = 0, !.n_a[a] = 0, !.fwd_a[a] = 0])

threshold_on_failure(a, tries) ==
    /\ call.fn = "threshold"
    /\ call.n_a[a] < FailCap(a)
    /\ LET f == forward(call, a, tries)
           k == IF f THEN 1 ELSE 0
           counted == [call EXCEPT
                !.n = @ + 1, !.fwd = @ + k,
                !.n_a[a] = @ + 1, !.fwd_a[a] = @ + k]
           c == IF call.retried \/ tries > 1
                THEN [call EXCEPT !.retried = TRUE, !.n = 0, !.fwd = 0,
                        !.n_a = [b \in Actors |-> 0],
                        !.fwd_a = [b \in Actors |-> 0]]
                ELSE counted
       IN  SetCall([on_failure(c, a, tries) EXCEPT
            !.last = [hook |-> "on_failure", forwarded |-> f]])

NextThreshold ==
    \/ \E a \in Actors : threshold_on_start(a)
    \/ \E a \in Actors : threshold_on_success(a)
    \/ \E a \in Actors, tries \in 1 .. 2 : threshold_on_failure(a, tries)

SpecThreshold == InitThreshold /\ [][NextThreshold]_vars

\* ----------------------------------- ErrorThresholdMiddleware: the reset
\* The same middleware with small limits.  `fresh` is the latest on_success
\* while no failure has followed it (with the counters it found), `last`
\* the latest hook, for a failure with the success it follows directly.
MaxLimit == 2

NoReset == [actor |-> 0, _overall |-> 0, _per_actor |-> [a \in Actors |-> 0]]

InitReset ==
    /\ Idle
    /\ gate = GateIdle
    /\ \E total \in 0 .. MaxLimit, actor \in 0 .. MaxLimit,
          message \in 1 .. MaxLimit :
        call = [fn |-> "reset",
                total_failures |-> total, actor_failures |-> actor,
                message_failures |-> message,
                _overall |-> 0, _per_actor |-> [a \in Actors |-> 0],
                fresh |-> NoReset,
                last |-> [hook |-> "none", actor |-> 0, tries |-> 0,
                          forwarded |-> FALSE, after |-> NoReset]]

reset_on_start(a) ==
    /\ call.fn = "reset"
    /\ SetCall([call EXCEPT
            !.last = [hook |-> "on_start", actor |-> a, tries |-> 0,
                      forwarded |-> TRUE, after |-> NoReset]])

reset_on_success(a) ==
    /\ call.fn = "reset"
    /\ SetCall([on_success(call, a) EXCEPT
            !.fresh = [actor |-> a, _overall |-> call._overall,
                       _per_actor |-> call._per_actor],
            !.last = [hook |-> "on_success", actor |-> a, tries |-> 0,
                      forwarded |-> TRUE, after |-> NoReset]])

reset_on_failure(a, tries) ==
    /\ call.fn = "reset"
    /\ SetCall([on_failure(call, a, tries) EXCEPT
            !.fresh = NoReset,
            !.last = [hook |-> "on_failure", actor |-> a, tries |-> tries,
                      forwarded |-> forward(call, a, tries),
                      after |-> call.fresh]])

NextReset ==
    \/ \E a \in Actors : reset_on_start(a)
    \/ \E a \in Actors : reset_on_success(a)
    \/ \E a \in Actors, tries \in 1 .. MaxLimit + 1 :
            reset_on_failure(a, tries)

SpecReset == InitReset /\ [][NextReset]_vars

\* ---------------------------------------------------- FrequencyMiddleware
\* One FrequencyMiddleware shared by the actors, on the clock of
\* time.monotonic(), whose reference point is undefined (any start value).
\* `fwd_at` and `err_at` note when a hook of an actor, and a failure of an
\* exception type, last reached the wrapped middleware; `last` is the
\* latest hook with what the notes said when it was called.
MaxFrame == 2
MaxMono == 2 * MaxFrame + 1
MaxCalls == 4
ErrTypes == {"ZeroDivisionError", "ValueError"}
HookNames == {"on_start", "on_success", "on_failure"}

InitFrequency ==
    /\ Idle
    /\ gate = GateIdle
    /\ \E timeframe \in 1 .. MaxFrame, start \in 0 .. MaxFrame + 1 :
        call = [fn |-> "frequency", timeframe |-> timeframe,
                start |-> start, now |-> start,
                _last_trigger_start |-> [a \in Actors |-> 0],
                _last_trigger_ok |-> [a \in Actors |-> 0],
                _last_trigger_err |-> [a \in Actors |-> 0],
                _reported_errors |-> [a \in Actors |-> {}],
                called |-> {}, calls |-> 0,
                fwd_at |-> [h \in HookNames |-> [a \in Actors |-> None]],
                err_at |-> [a \in Actors |-> [e \in ErrTypes |-> None]],
                last |-> [hook |-> "none", actor |-> 0, first |-> FALSE,
                          forwarded |-> FALSE, since |-> None,
                          err_since |-> None]]

\* `now - self._last_trigger_*.get(actor_name, 0) > self.timeframe`
\* (a missing entry reads as 0)
window_over(c, last_trigger, a) == c.now - last_trigger[a] > c.timeframe

Since(t) == IF t = None THEN None ELSE call.now - t

\* what the notes say about this call of hook h for actor a
Observed(h, a, err, f) ==
    [hook |-> h, actor |-> a, first |-> <<h, a>> \notin call.called,
     forwarded |-> f, since |-> Since(call.fwd_at[h][a]),
     err_since |-> IF h = "on_failure" THEN Since(call.err_at[a][err])
                   ELSE None]

Note(c, h, a, err, f) ==
    [c EXCEPT !.called = @ \cup {<<h, a>>}, !.calls = @ + 1,
              !.last = Observed(h, a, err, f),
              !.fwd_at[h][a] = IF f THEN c.now ELSE @]

frequency_on_start(a) ==
    /\ call.fn = "frequency"
    /\ call.calls < MaxCalls
    /\ LET f == window_over(call, call._last_trigger_start, a)
           c == IF f THEN [call EXCEPT !._last_trigger_start[a] = call.now]
                ELSE call
       IN  SetCall(Note(c, "on_start", a, "", f))

frequency_on_success(a) ==
    /\ call.fn = "frequency"
    /\ call.calls < MaxCalls
    /\ LET f == window_over(call, call._last_trigger_ok, a)
           c == IF f THEN [call EXCEPT !._last_trigger_ok[a] = call.now]
                ELSE call
       IN  SetCall(Note(c, "on_success", a, "", f))

\* inside the time gate: forward unless the type is among the reported
\* ones; `reported_errors.add(err)` is reached only for a type that is
\* already in the set
frequency_on_failure(a, err) ==
    /\ call.fn = "frequency"
    /\ call.calls < MaxCalls
    /\ LET gate_open == window_over(call, call._last_trigger_err, a)
           f == gate_open /\ err \notin call._reported_errors[a]
           c == IF gate_open
                THEN [call EXCEPT
                        !._last_trigger_err[a] = call.now,
                        !._reported_errors[a] =
                            IF f THEN @ ELSE @ \cup {err}]
                ELSE call
       IN  SetCall([Note(c, "on_failure", a, err, f) EXCEPT
                        !.err_at[a][err] = IF f THEN call.now ELSE @])

frequency_tick ==
    /\ call.fn = "frequency"
    /\ call.now < MaxMono
    /\ SetCall([call EXCEPT !.now = @ + 1])

NextFrequency ==
    \/ \E a \in Actors : frequency_on_start(a)
    \/ \E a \in Actors : frequency_on_success(a)
    \/ \E a \in Actors, err \in ErrTypes : frequency_on_failure(a, err)
    \/ frequency_tick

SpecFrequency == InitFrequency /\ [][NextFrequency]_vars

\* ------------------------------------------------------------------ Clock
\* Several Clock instances with the same event and period run against one
\* broker, on a wall clock in units of CLOCK_EPS (the .001 s of _wait).  A
\* sleeping task is woken up to MaxJitter units late.  The broker drops a
\* message whose Nats-Msg-Id it has already stored.
CLOCK_EPS == 1
MaxPeriod == 4
MaxJitter == 1
Clocks == {1, 2}
ClockEnd == 2 * MaxPeriod + CLOCK_EPS + MaxJitter

InitClock ==
    /\ Idle
    /\ gate = GateIdle
    /\ \E period \in 3 .. MaxPeriod, t \in 0 .. MaxPeriod - 1 :
        call = [fn |-> "clock", period |-> period, t |-> t,
                clocks |-> [i \in Clocks |-> [pc |-> "run", wake_at |-> 0]],
                emitted |-> {}, stored |-> {}]

\* Clock._wait: `delay = self.period - (now % self.period) + .001`
wait_delay(period, t) == period - (t % period) + CLOCK_EPS

\* Clock._emit: `uid = now.timestamp() % self.period`, sent as f'{uid}'
emit_uid(period, t) == format_float(t % period)

clock_wait(i) ==
    /\ call.fn = "clock"
    /\ call.clocks[i].pc = "run"
    /\ call.t + wait_delay(call.period, call.t) <= ClockEnd - MaxJitter
    /\ SetCall([call EXCEPT
            !.clocks[i] = [pc |-> "sleeping",
                           wake_at |-> call.t + wait_delay(call.period, call.t)]])

\* the sleep is over: Clock.run reads the time and starts _emit, whose
\* message the broker stores unless it has the id
clock_emit(i) ==
    /\ call.fn = "clock"
    /\ call.clocks[i].pc = "sleeping"
    /\ call.t >= call.clocks[i].wake_at
    /\ LET uid == emit_uid(call.period, call.t)
           dup == \E e \in call.stored : e.uid = uid
       IN  SetCall([call EXCEPT
            !.clocks[i].pc = "run",
            !.emitted = @ \cup {[clock |-> i, at |-> call.t, uid |-> uid]},
            !.stored = IF dup THEN @
                       ELSE @ \cup {[at |-> call.t, uid |-> uid]}])

clock_tick ==
    /\ call.fn = "clock"
    /\ call.t < ClockEnd
    /\ \A i \in Clocks : call.clocks[i].pc = "sleeping" =>
            call.t < call.clocks[i].wake_at + MaxJitter
    /\ SetCall([call EXCEPT !.t = @ + 1])

NextClock ==
    \/ \E i \in Clocks : clock_wait(i)
    \/ \E i \in Clocks : clock_emit(i)
    \/ clock_tick

SpecClock == InitClock /\ [][NextClock]_vars

\* ------------------------------------------------------------- rate_limit
\* One rate_limit(max_jobs, period) wrapper called for up to MaxJobs events
\* at any moments.  A handler suspends for any time and returns or raises;
\* the event loop runs a task as soon as it is ready.
MaxRatePeriod == 2
RateJobs == 1 .. MaxJobs
RateEnd == MaxJobs * MaxRatePeriod + 1

InitRate ==
    /\ Idle
    /\ gate = GateIdle
    /\ \E max_jobs \in 1 .. MaxJobs - 1, period \in 1 .. MaxRatePeriod :
        call = [fn |-> "rate_limit", max_jobs |-> max_jobs,
                period |-> period, t |-> 0,
                _semaphore |-> Semaphore(max_jobs),
                jobs |-> [j \in RateJobs |->
                    [pc |-> "idle", arrived |-> None, started |-> None,
                     release_at |-> None, released |-> FALSE]]]

\* rate_limit._release with no sleep
release_sleep_none(period) == 0

\* rate_limit._release: `await asyncio.sleep(self.period)`
release_sleep(period) == period

\* wrapper past `await self._semaphore.acquire()`: the release task is
\* created and the handler is called
rate_started(c, j) ==
    [c EXCEPT !.jobs[j].pc = "running",
              !.jobs[j].started = c.t,
              !.jobs[j].release_at = c.t + release_sleep(c.period)]

\* the wrapper is called: the permit is taken at once or awaited
rate_call(j) ==
    /\ call.fn = "rate_limit"
    /\ call.jobs[j].pc = "idle"
    /\ LET c == [call EXCEPT !.jobs[j].arrived = call.t]
       IN  SetCall(
             IF locked(call._semaphore)
             THEN [c EXCEPT !.jobs[j].pc = "waiting",
                            !._semaphore = acquire_wait(@, j)]
             ELSE rate_started([c EXCEPT !._semaphore = acquire_now(@)], j))

RateWoken(j) ==
    /\ call.jobs[j].pc = "waiting"
    /\ WaiterState(call._semaphore, j) = "woken"

\* acquire() of a waiting wrapper returns
rate_resume(j) ==
    /\ call.fn = "rate_limit"
    /\ j \in RateJobs
    /\ RateWoken(j)
    /\ SetCall(rate_started(
            [call EXCEPT !._semaphore = acquire_resume(@, j)], j))

\* the handler returns or raises; the release task is left alone
rate_handler_done(j, ok) ==
    /\ call.fn = "rate_limit"
    /\ call.jobs[j].pc = "running"
    /\ SetCall([call EXCEPT !.jobs[j].pc = IF ok THEN "done" ELSE "failed"])

ReleaseDue(j) ==
    /\ ~call.jobs[j].released
    /\ call.jobs[j].release_at # None
    /\ call.jobs[j].release_at <= call.t

\* rate_limit._release after its sleep
rate_release(j) ==
    /\ call.fn = "rate_limit"
    /\ j \in RateJobs
    /\ ReleaseDue(j)
    /\ SetCall([call EXCEPT !.jobs[j].released = TRUE,
                            !._semaphore = release(@)])

rate_tick ==
    /\ call.fn = "rate_limit"
    /\ call.t < RateEnd
    /\ \A j \in RateJobs : ~ReleaseDue(j) /\ ~RateWoken(j)
    /\ SetCall([call EXCEPT !.t = @ + 1])

NextRate ==
    \/ \E j \in RateJobs : rate_call(j)
    \/ \E j \in RateJobs : rate_resume(j)
    \/ \E j \in RateJobs, ok \in BOOLEAN : rate_handler_done(j, ok)
    \/ \E j \in RateJobs : rate_release(j)
    \/ rate_tick

SpecRate == InitRate /\ [][NextRate]_vars

\* ---------------------------------------------------- the supervisor (Tasks)
\* _tasks is kept as the number of handles of each sort: the code filters,
\* iterates and gathers the list but never depends on its order.  A handle
\* is of a task that is "pending", "cancelling" (Task.cancel() was called
\* and the task has not run since), "finished" or "cancelled"; snap says
\* that the handle was in the list given to gather() by wait().
CLEANUP_EVERY == 100
MaxStarts == 4      \* start() calls made on one supervisor by its users
MaxPending == 2     \* unfinished tasks at a time in the compaction scenario

TaskKinds == {"handle_message", "nak"}

Handles ==
    [kind : TaskKinds,
     st : {"pending", "cancelling", "finished", "cancelled"},
     snap : BOOLEAN]

\* Task.done()
TaskDone(h) == h.st \in {"finished", "cancelled"}

RECURSIVE SumOver(_, _)
SumOver(f, S) ==
    IF S = {} THEN 0
    ELSE LET h == CHOOSE x \in S : TRUE
         IN  f[h] + SumOver(f, S \ {h})

\* len(self._tasks)
Tracked(t) == SumOver(t._tasks, Handles)

Unfinished(t) == SumOver(t._tasks, {h \in Handles : ~TaskDone(h)})

\* Tasks.__init__
NewTasks ==
    [_tasks |-> [h \in Handles |-> 0], _since_cleanup |-> 0, _done |-> FALSE]

\* an assertion that never fails
assert_nothing(t) == TRUE

\* `assert not self._done`
assert_not_done(t) == ~t._done

\* a clean-up that keeps every handle
compact_keeps(tasks) == tasks

\* `self._tasks = [t for t in self._tasks if not t.done()]`
compact(tasks) == [h \in Handles |-> IF TaskDone(h) THEN 0 ELSE tasks[h]]

\* Tasks.start: the supervisor after the call, and what the call raised
Tasks_start(t, kind) ==
    IF ~assert_not_done(t) THEN [t |-> t, raised |-> "AssertionError"]
    ELSE LET since == (t._since_cleanup + 1) % CLEANUP_EVERY
             kept == IF since = 0 THEN compact(t._tasks) ELSE t._tasks
             new == [kind |-> kind, st |-> "pending", snap |-> FALSE]
         IN  [t |-> [t EXCEPT !._since_cleanup = since,
                              !._tasks = [kept EXCEPT ![new] = @ + 1]],
              raised |-> "none"]

\* Tasks.cancel: Task.cancel() on every handle; it changes nothing for a
\* task that is done or already has a cancellation pending.
Tasks_cancel(t) ==
    IF t._done THEN t
    ELSE [t EXCEPT !._tasks =
            [h \in Handles |->
                CASE h.st = "pending" -> 0
                  [] h.st = "cancelling" ->
                        @[h] + @[[h EXCEPT !.st = "pending"]]
                  [] OTHER -> @[h]]]

\* Tasks.wait up to `await asyncio.gather(*self._tasks)`: the handles
\* tracked now are the ones gathered.
Tasks_wait_begin(t) ==
    IF ~assert_not_done(t) THEN [t |-> t, raised |-> "AssertionError"]
    ELSE [t |-> [t EXCEPT !._tasks =
                    [h \in Handles |->
                        IF h.snap
                        THEN @[h] + @[[h EXCEPT !.snap = FALSE]] ELSE 0]],
          raised |-> "none"]

Gathered(t, sts) ==
    SumOver(t._tasks, {h \in Handles : h.snap /\ h.st \in sts})

\* gather() is over when a gathered task was cancelled or all have finished
GatherOver(t) ==
    \/ Gathered(t, {"cancelled"}) > 0
    \/ Gathered(t, {"pending", "cancelling"}) = 0

\* Tasks.wait from the return of gather() on
Tasks_wait_end(t) ==
    IF Gathered(t, {"cancelled"}) > 0
    THEN [t |-> t, raised |-> "CancelledError"]
    ELSE [t |-> [t EXCEPT !._done = TRUE], raised |-> "none"]

\* the state of a supervised task changes from h to the sort st
Moved(t, h, st) ==
    LET to == [h EXCEPT !.st = st]
    IN  [t EXCEPT !._tasks = [@ EXCEPT ![h] = @ - 1, ![to] = @ + 1]]

\* One supervisor and its users.  An "any" client makes any calls in any
\* order.  The "listen" client calls as Actor._listen does: handle_message
\* tasks are started by the pull loop, which in burst mode then waits;
\* `finally: tasks.cancel()` follows whenever the loop ends; a
\* handle_message task that has not finished starts the nak task.  The
\* "compact" client only starts tasks.
SupCall(client) ==
    [fn |-> "Tasks", client |-> client,
     pc |-> IF client = "listen" THEN "pull" ELSE "idle",
     t |-> NewTasks, starts |-> 0, cancels |-> 0, waits |-> 0, base |-> 0,
     last |-> [op |-> "none", before |-> NewTasks, raised |-> "none"]]

InitTasks ==
    /\ Idle /\ gate = GateIdle
    /\ \E client \in {"any", "listen"} : call = SupCall(client)

Did(c, op, r) ==
    [c EXCEPT !.t = r.t,
              !.last = [op |-> op, before |-> c.t, raised |-> r.raised]]

MayStart(kind) ==
    CASE call.client = "any" -> call.starts < MaxStarts
      [] call.client = "compact" -> Unfinished(call.t) < MaxPending
      [] OTHER ->
            /\ call.starts < MaxStarts
            /\ IF kind = "handle_message" THEN call.pc = "pull"
               ELSE \E h \in Handles : /\ h.kind = "handle_message"
                                       /\ ~TaskDone(h)
                                       /\ call.t._tasks[h] > 0

sup_start(kind) ==
    /\ call.fn = "Tasks"
    /\ MayStart(kind)
    /\ LET c == Did(call, "start", Tasks_start(call.t, kind))
       IN  SetCall([c EXCEPT
                !.starts = Min(@ + 1, MaxStarts),
                !.base = IF c.last.raised = "none" /\ c.t._since_cleanup = 0
                         THEN Unfinished(call.t) ELSE @])

sup_cancel ==
    /\ call.fn = "Tasks"
    /\ call.client = "listen" => call.pc \in {"pull", "waiting", "waited"}
    /\ LET c == Did(call, "cancel", [t |-> Tasks_cancel(call.t),
                                     raised |-> "none"])
       IN  SetCall([c EXCEPT
                !.cancels = Min(@ + 1, 2),
                !.pc = IF call.client = "listen" THEN "ended" ELSE @])

sup_wait ==
    /\ call.fn = "Tasks"
    /\ call.pc = IF call.client = "listen" THEN "pull" ELSE "idle"
    /\ LET c == Did(call, "wait", Tasks_wait_begin(call.t))
       IN  SetCall([c EXCEPT
                !.waits = Min(@ + 1, 2),
                !.pc = IF c.last.raised = "none" THEN "waiting" ELSE @])

sup_wait_return ==
    /\ call.fn = "Tasks"
    /\ call.pc = "waiting"
    /\ GatherOver(call.t)
    /\ LET c == Did(call, "wait_return", Tasks_wait_end(call.t))
       IN  SetCall([c EXCEPT
                !.pc = IF call.client = "listen" THEN "waited" ELSE "idle"])

\* a supervised task ends: a pending one finishes, one with a cancellation
\* pending ends cancelled or, if it catches the CancelledError, finishes
sup_task_done(h, st) ==
    /\ call.fn = "Tasks"
    /\ h \in Handles /\ call.t._tasks[h] > 0
    /\ \/ h.st = "pending" /\ st = "finished"
       \/ h.st = "cancelling" /\ st \in {"finished", "cancelled"}
    /\ SetCall([call EXCEPT
            !.t = Moved(call.t, h, st),
            !.last = [op |-> "task_done", before |-> call.t,
                      raised |-> "none"]])

NextTasks ==
    \/ \E kind \in TaskKinds : sup_start(kind)
    \/ sup_cancel
    \/ sup_wait
    \/ sup_wait_return
    \/ \E h \in Handles : \E st \in {"finished", "cancelled"} :
            sup_task_done(h, st)

SpecTasks == InitTasks /\ [][NextTasks]_vars

InitCompact == Idle /\ gate = GateIdle /\ call = SupCall("compact")

NextCompact ==
    \/ sup_start("nak")
    \/ \E h \in Handles : sup_task_done(h, "finished")

\* a supervisor on which tasks are started for ever
SpecCompact == InitCompact /\ [][NextCompact]_vars

\* ----------------------------------------------------------------- claims
Has(ev, m, n) == \E e \in hist : e.ev = ev /\ e.m = m /\ e.n = n

Failures == {"fail_decode", "fail_error", "fail_timeout", "fail_cancelled"}

Failed(m, n) == \E e \in hist : e.ev \in Failures /\ e.m = m /\ e.n = n

\* handlers of actor a that are between invocation and completion
InFlight(a) == {m \in Msgs : Actor(m) = a /\ task[m].pc = "running"}

\* C1: at any instant the handlers in flight for one actor are at most the
\* actor's max_jobs, and the handlers in flight in total are at most the
\* max_jobs passed to listen().
C1_NoOversubscription ==
    /\ \A a \in Actors : Cardinality(InFlight(a)) <= actor_max_jobs[a]
    /\ Cardinality(UNION {InFlight(a) : a \in Actors}) <= args.max_jobs

\* a handler of one actor runs while a job of another actor waits for the
\* only global permit, or a job of the same actor waits for the actor permit
C1_Witness ==
    \E m1, m2 \in Msgs :
        /\ task[m1].pc = "running"
        /\ \/ Actor(m1) # Actor(m2) /\ task[m2].pc = "gate_wait"
              /\ args.max_jobs = 1
           \/ Actor(m1) = Actor(m2) /\ task[m2].pc = "wait_actor"
              /\ actor_max_jobs[Actor(m1)] = 1

\* C2: an ack is sent for a delivery only after the handler was invoked with
\* the decoded payload and returned; never for a delivery that was nak'ed
\* for delay, failed to decode, failed, timed out or was cancelled.
C2_AckOnlyAfterSuccess ==
    \A e \in hist : e.ev = "ack" =>
        /\ msg[e.m].valid
        /\ Has("invoke", e.m, e.n)
        /\ Has("return", e.m, e.n)
        /\ ~Failed(e.m, e.n)
        /\ ~Has("nak_delay", e.m, e.n)
        /\ ~Has("nak_start", e.m, e.n)
        /\ ~Has("nak", e.m, e.n)

\* a message is acked on its second delivery, after the first one failed
C2_Witness ==
    \E m \in Msgs : Has("ack", m, 2) /\ Failed(m, 1) /\ msg[m].st = "acked"

\* C3: an exception raised by the handler, by decoding or by job_timeout
\* does not leave the handle_message task, and no pull loop ends with it.
C3_FailureStaysInTask ==
    /\ \A m \in Msgs : task[m].fail \in {"decode", "error", "timeout"}
                       => ~task[m].escaped
    /\ \A a \in Actors : loop[a] # "crashed"

\* after a failed first delivery the pull loop has fetched the message again
C3_Witness ==
    \E m \in Msgs : /\ Has("fail_timeout", m, 1) \/ Has("fail_error", m, 1)
                    /\ task[m].n = 2
                    /\ loop[Actor(m)] = "fetch"

\* C4: _get_nak_delay(a) is 0 for an empty retry_delay, retry_delay[0] when
\* a is absent, retry_delay[min(a, len-1)] otherwise; a failed delivery is
\* nak'ed with _get_nak_delay(num_delivered).
NakDelayClaimed(delays, a) ==
    IF Len(delays) = 0 THEN 0
    ELSE IF a = None THEN delays[1]
    ELSE delays[Min(a, Len(delays) - 1) + 1]

C4_NakDelay ==
    /\ call.fn = "get_nak_delay" /\ call.done
        => call.out = NakDelayClaimed(call.delays, call.num)
    /\ \A e \in hist : e.ev \in {"nak_start", "nak"} =>
        e.v = NakDelayClaimed(actor_retry_delay[Actor(e.m)], e.n)

\* the nak of a failed second delivery has been sent
C4_Witness ==
    \E e \in hist : e.ev = "nak" /\ e.n = 2 /\ Failed(e.m, 2)

\* C5 (as documented on Actor.retry_delay): the retry that follows the k-th
\* failed delivery of a message is delayed by the k-th element of
\* retry_delay, the last element once k exceeds the length.
FailedUpTo(m, n) ==
    Cardinality({i \in 1..n : Has("nak_start", m, i)})

C5_RetrySchedule ==
    \A e \in hist : e.ev = "nak_start" =>
        LET delays == actor_retry_delay[Actor(e.m)]
            k == FailedUpTo(e.m, e.n)
        IN  e.v = delays[Min(k, Len(delays))]

\* C6: a handle_message task cancelled while it waits for a semaphore or
\* runs the handler is treated as a failed one: the pulse is cancelled, the
\* nak task is started with the retry delay, on_failure is dispatched, the
\* message is not acked, and the nak is eventually sent.
InTry(m) == task[m].pc \in {"wait_actor", "gate_wait", "gate_sleep", "running"}

C6_CancelHandled ==
    \A m \in Msgs : \A e \in hist : e.ev = "fail_cancelled" /\ e.m = m =>
        /\ ~task[m].escaped
        /\ task[m].pulse # "on"
        /\ H("nak_start", m, e.n,
             get_nak_delay(actor_retry_delay[Actor(m)], e.n)) \in hist
        /\ actor_middlewares[Actor(m)] => Has("on_failure", m, e.n)
        /\ ~Has("ack", m, e.n)
        /\ msg[m].st # "acked"

C6_CancelIsFailure ==
    /\ []C6_CancelHandled
    /\ \A m \in Msgs : \A n \in 1..MaxDeliver :
          (task[m].cancel /\ InTry(m) /\ task[m].n = n) ~> Has("nak", m, n)

\* a cancelled handler's nak was sent
C6_Witness ==
    \E m \in Msgs : \E n \in 1..MaxDeliver :
        Has("fail_cancelled", m, n) /\ Has("nak", m, n) /\ cancelled

\* C7 (as stated): the handler of a message emitted with delay d is never
\* invoked before emit time + d, and every delivery before that time is
\* nak'ed with the remaining delay.
Due(m) == msg[m].delay_until

AttemptsClaimed(num_delivered, delayed) ==
    IF delayed # None /\ num_delivered # None /\ num_delivered >= 2
    THEN num_delivered - 1
    ELSE IF num_delivered = None THEN 1 ELSE num_delivered

C8_Attempts ==
    /\ call.fn = "attempts" /\ call.done =>
        /\ call.out = AttemptsClaimed(call.num, call.hdr)
        /\ call.out >= 1
    /\ \A e \in hist : e.ev = "on_start" =>
        /\ e.v = AttemptsClaimed(e.n, Due(e.m))
        /\ e.v >= 1
        /\ e.n = 2 /\ Has("nak_delay", e.m, 1) => e.v = 1

\* on_start of the delivery that follows the nak for delay saw attempts 1
C8_Witness ==
    \E e \in hist : e.ev = "on_start" /\ e.n = 2 /\ e.v = 1
                    /\ Has("nak_delay", e.m, 1)

\* C9: the jobs of one batch enter the critical section of Priority.acquire
\* in non-decreasing priority value, whatever the capacity of the semaphore.
C9_PriorityOrder ==
    \A i, j \in DOMAIN gate.results :
        i < j => gate.results[i] <= gate.results[j]

\* a batch submitted with a LOW job first and a HIGH job later has finished
\* on a semaphore of capacity 1, the HIGH job having entered first
C9_Witness ==
    /\ Len(gate.job) >= 2
    /\ gate.ready = <<>>
    /\ Len(gate.results) = Len(gate.job)
    /\ gate.sem.value = 1
    /\ gate.job[1].prio = LOW
    /\ \E j \in DOMAIN gate.job : gate.job[j].prio = HIGH
    /\ gate.results[1] = HIGH

\* C10: a response is published only for a delivery whose handler returned
\* and that was acked, only by an actor of an EventWithResponse for a
\* message with the Walnats-Reply header, and only to that inbox.
C10_ResponseOnlyAfterSuccess ==
    \A e \in hist : e.ev \in {"respond_start", "respond"} =>
        /\ Has("return", e.m, e.n)
        /\ Has("ack", e.m, e.n)
        /\ msg[e.m].st = "acked"
        /\ actor_with_response[Actor(e.m)]
        /\ msg[e.m].reply # None
        /\ e.v = msg[e.m].reply
        /\ ~Failed(e.m, e.n)
        /\ ~Has("nak_delay", e.m, e.n)
        /\ ~Has("nak_start", e.m, e.n)

\* the response to a request was published after its second delivery, the
\* first one having failed without a response
C10_Witness ==
    \E m \in Msgs : /\ Has("respond", m, 2)
                    /\ Failed(m, 1)
                    /\ ~Has("respond_start", m, 1)

\* C11: request() returns exactly one response, the decoded first message
\* that arrived at its inbox, however many actors reply; it raises a
\* timeout error when no response arrived within `timeout`.
C11_RequestFirstWins ==
    /\ call.pc = "done" =>
        /\ call.queue # <<>>
        /\ call.out = decode_response(call.queue[1])
        /\ call.out \in 1..MaxJobs
        /\ call.err = "none"
    /\ call.pc = "raised" =>
        /\ call.err = "TimeoutError"
        /\ call.out = None
        /\ call.t = call.timeout
        /\ Len(call.queue) = call.late
    /\ call.pc \in {"publish", "next_msg"} => call.out = None

\* request() returned the first of several responses, which was not the
\* last one to arrive
C11_Witness ==
    /\ call.fn = "request" /\ call.pc = "done"
    /\ Len(call.queue) >= 2
    /\ call.out = decode_response(call.queue[1])
    /\ call.out # decode_response(call.queue[Len(call.queue)])

\* C12: register(create, update) for a stream that exists with another
\* configuration raises StreamExistsError for (true, false), makes no
\* broker call for (false, false), and applies update_stream when update is
\* true, raising StreamConfigError for an immutable option; a missing
\* stream with create=true gets add_stream only; an unchanged event
\* registers again for every (create, update).
Finished == call.pc \in {"done", "raised"}

Differs == call.old # NoStream /\ call.old # call.cfg

C12_Register ==
    Finished =>
    /\ Differs /\ call.create /\ ~call.update =>
        /\ call.pc = "raised" /\ call.err.type = "StreamExistsError"
        /\ call.stream = call.old
    /\ ~call.create /\ ~call.update =>
        call.pc = "done" /\ call.calls = <<>> /\ call.stream = call.old
    /\ Differs /\ call.update =>
        /\ call.calls # <<>>
        /\ call.calls[Len(call.calls)] = "update_stream"
        /\ IF call.old.consumers # call.cfg.consumers
           THEN /\ call.pc = "raised"
                /\ call.err.type = "StreamConfigError"
                /\ call.stream = call.old
           ELSE call.pc = "done" /\ call.stream = call.cfg
    /\ call.old = NoStream /\ call.create =>
        /\ call.pc = "done" /\ call.calls = <<"add_stream">>
        /\ call.stream = call.cfg
    /\ call.old = call.cfg =>
        call.pc = "done" /\ call.stream = call.cfg

\* register(create=True, update=True) updated a stream that existed with
\* another max_age: add_stream was refused, update_stream applied
C12_Witness ==
    /\ call.fn = "register" /\ call.pc = "done"
    /\ call.calls = <<"add_stream", "update_stream">>
    /\ Differs /\ call.stream = call.cfg

\* C13: an exception raised inside convert_errors that is not a 'stream
\* exists', 'consumer exists' or 'stream config' broker error leaves the
\* scope unchanged, whatever exists_ok is.
Converted(exc) ==
    \/ IsBadRequestError(exc.type)
       /\ exc.err_code \in {JS_STREAM_EXISTS, JS_CONSUMER_EXISTS}
    \/ IsServerError(exc.type) /\ exc.err_code = JS_STREAM_CONFIG

C13_OtherErrorsPropagate ==
    call.fn = "convert_errors" /\ call.done /\ ~Converted(call.exc)
        => call.out = call.exc

\* C14: the headers sent are the caller's meta (a dict as given, the set
\* CloudEvent fields as ce-<field>) plus Nats-Msg-Id (uid, else the
\* CloudEvent id), Walnats-Trace, Walnats-Delay = now + delay and, for
\* request() only, Walnats-Reply; reserved headers override meta keys, meta
\* is not mutated, and a plain emit sends no headers.
MetaHeaders ==
    IF call.meta.kind = "dict" THEN call.meta.d
    ELSE IF call.meta.kind = "ce"
    THEN [k \in {"ce-id", "ce-source", "ce-type", "ce-specversion"}
                \cup (IF call.meta.d.subject # NoneText
                      THEN {"ce-subject"} ELSE {}) |->
            CASE k = "ce-id" -> call.meta.d.id
              [] k = "ce-source" -> call.meta.d.source
              [] k = "ce-type" -> call.meta.d.type
              [] k = "ce-specversion" -> call.meta.d.specversion
              [] OTHER -> call.meta.d.subject]
    ELSE <<>>

ReservedKeys ==
    (IF call.uid # NoneText \/ call.meta.kind = "ce"
     THEN {HEADER_ID} ELSE {})
    \cup (IF call.trace_id # NoneText THEN {HEADER_TRACE} ELSE {})
    \cup (IF call.delay # None THEN {HEADER_DELAY} ELSE {})
    \cup (IF call.fn = "request" THEN {HEADER_REPLY} ELSE {})

ReservedValue(k) ==
    CASE k = HEADER_ID -> IF call.uid # NoneText THEN call.uid
                          ELSE call.meta.d.id
      [] k = HEADER_TRACE -> call.trace_id
      [] k = HEADER_DELAY -> format_float(now + call.delay)
      [] OTHER -> Text(9)

C14_Headers ==
    call.fn \in {"emit", "request"} /\ call.done =>
        LET h == call.sent.headers
        IN  /\ DOMAIN h = DOMAIN MetaHeaders \cup ReservedKeys
            /\ \A k \in DOMAIN h :
                 h[k] = IF k \in ReservedKeys THEN ReservedValue(k)
                        ELSE MetaHeaders[k]
            /\ HEADER_DELAY \in ReservedKeys =>
                 parse_float(h[HEADER_DELAY]) = now + call.delay
            /\ call.meta_after = call.meta
            /\ call.sent.none => h = <<>>
            /\ (call.fn = "emit" /\ ~call.sync /\ call.meta = NoMeta
                /\ ReservedKeys = {}) => call.sent.none

\* an emit whose uid and delay replaced the Nats-Msg-Id and kept the other
\* keys of the caller's dict, at a time other than zero
C14_Witness ==
    /\ call.fn = "emit" /\ call.done /\ now > 0
    /\ call.meta.kind = "dict"
    /\ {HEADER_ID, "hello"} \subseteq DOMAIN call.meta.d
    /\ call.uid # NoneText /\ call.delay = MaxDelay
    /\ call.sent.headers[HEADER_ID] = call.uid
    /\ call.sent.headers[HEADER_ID] # call.meta.d[HEADER_ID]
    /\ call.sent.headers["hello"] = call.meta.d["hello"]
    /\ call.sent.headers[HEADER_DELAY] = Text(now + MaxDelay)

\* C15 (as stated): in burst mode every pull loop issues one fetch, and
\* listen() has returned at most poll_delay after its start when no actor
\* has a message.
NoMessages == \A a \in BurstActors : ~call.had[a]

C15_BurstWithinPollDelay ==
    /\ \A a \in BurstActors : call.fetches[a] <= 1
    /\ call.fn = "burst" /\ call.listen = "returned" /\ NoMessages
        => call.t <= PollDelay

\* C15 (amended): in burst mode every pull loop issues exactly one fetch,
\* the message it returns is handled before the loop returns, listen()
\* returns once every loop has, and it does return; with no message
\* anywhere that is after at most poll_delay for each round of max_polls
\* concurrent fetches, hence after poll_delay when max_polls is not below
\* the number of actors.
PollRounds == (call.n + call.polls - 1) \div call.polls

C15_BurstSafe ==
    call.fn = "burst" =>
    /\ \A a \in BurstActors :
        /\ call.fetches[a] <= 1
        /\ call.loop[a] = "returned" =>
            /\ call.fetches[a] = 1
            /\ call.job[a] = IF call.had[a] THEN "done" ELSE "none"
        /\ call.job[a] # "none" => call.had[a] /\ call.fetches[a] = 1
    /\ call.listen = "returned" =>
        /\ \A a \in BurstActors : call.loop[a] = "returned"
        /\ NoMessages => call.t = PollDelay * PollRounds
        /\ NoMessages /\ call.polls = call.n => call.t = PollDelay

C15_BurstTerminates ==
    /\ []C15_BurstSafe
    /\ <>(call.listen = "returned")

\* listen(burst=True, max_polls=1) of two actors without messages has
\* returned after two poll delays
C15_Witness ==
    /\ call.fn = "burst" /\ call.listen = "returned"
    /\ call.n = 2 /\ call.polls = 1 /\ NoMessages
    /\ call.t = 2 * PollDelay

\* C16: when listen(burst=True) has returned, no task started through the
\* supervisor of an actor (nak, response) is still pending.
C16_BurstDrained ==
    \A a \in Actors : args.burst /\ loop[a] = "returned" =>
        \A b \in bg : Actor(b.m) # a

\* C17: when listen() is cancelled, the pull loop of every actor cancels the
\* tasks of its supervisor before it unsubscribes, and eventually no
\* handle_message task and no pulse task of the call is left running.
Unsubscribing(a) == loop[a] = "cancelled"

NoneRunning ==
    \A m \in Msgs : task[m].pc \in {"none", "done"} /\ task[m].pulse # "on"

C17_CancelBeforeUnsubscribe ==
    \A a \in Actors : Unsubscribing(a) =>
        \A m \in Msgs : Actor(m) = a /\ task[m].pc \notin {"none", "done"}
            => task[m].cancel

C17_Shutdown ==
    /\ []C17_CancelBeforeUnsubscribe
    /\ cancelled ~> NoneRunning

\* every pull loop has unsubscribed, a handler that was running with its
\* pulse has been cancelled, and nothing is running any more
C17_Witness ==
    /\ cancelled /\ NoneRunning
    /\ \A a \in Actors : Unsubscribing(a)
    /\ \E m \in Msgs : /\ Has("fail_cancelled", m, task[m].n)
                       /\ Has("invoke", m, task[m].n)
                       /\ task[m].pulse = "cancelled"

\* C18: whatever the hooks of a middleware do (return nothing, return a
\* deferred, raise), the handler is invoked and the message acked or nak'ed
\* as with no middleware: a decodable message reaches the handler, it is
\* acked iff the handler returns and nak'ed otherwise.
HandlerReturns == call.how \in {"return", "await_return"}

C18_HooksKeepFlow ==
    call.fn = "handle_message" /\ call.pc = "done" =>
        /\ call.invoked = call.valid
        /\ call.acked = (call.valid /\ HandlerReturns)
        /\ call.naked = ~call.acked

\* C19: with pulse=True the running handler's message has an in-progress
\* signal sent every ack_wait/2 from dispatch on and is never delivered
\* again while the handler runs; with pulse=False a handler that has been
\* running longer than ack_wait has had its message delivered again
\* (unless an earlier delivery was acked meanwhile or none is left).
Overdue(j) ==
    /\ call.jobs[j].dur > call.ack_wait
    /\ call.t > call.jobs[j].start + call.ack_wait

\* another handler of the same message has returned, which acks the message
AckedByOther(j) ==
    \E i \in PulseJobs \ {j} : call.jobs[i].pc = "done" /\ call.jobs[i].ok

C19_Pulse ==
    \A j \in PulseJobs :
        /\ call.pulse /\ call.jobs[j].pc = "running" =>
            /\ Len(call.jobs) = j
            /\ call.t < call.deadline
            /\ call.jobs[j].pulse_at = call.jobs[j].start
                  + (call.jobs[j].signals + 1) * pulse_sleep(call.ack_wait)
            /\ call.t <= call.jobs[j].pulse_at
        /\ ~call.pulse /\ j < MaxDeliver /\ Overdue(j) /\ ~AckedByOther(j) =>
            Len(call.jobs) > j

\* a pulsed handler outlived ack_wait several times over; an unpulsed one
\* is still running when its message has come again
C19_Witness ==
    /\ call.fn = "pulse"
    /\ Len(call.jobs) >= 1
    /\ call.jobs[1].pc = "running"
    /\ \/ call.pulse /\ call.t >= 2 * call.ack_wait /\ call.jobs[1].signals >= 3
       \/ ~call.pulse /\ Len(call.jobs) = 2 /\ Overdue(1)

\* C20: of N consecutive failed first deliveries with no success in between,
\* ErrorThresholdMiddleware forwards max(0, N - k - 1) to the wrapped
\* middleware, k being actor_failures for the failures of one actor and
\* total_failures for those of all actors (the other limit out of reach);
\* on_start and on_success are always delegated.
Forwarded(n, k) == IF n > k + 1 THEN n - k - 1 ELSE 0

C20_Threshold ==
    call.fn = "threshold" =>
        /\ call.last.hook \in {"on_start", "on_success"} => call.last.forwarded
        /\ ~call.retried /\ call.total_failures = OutOfReach =>
            \A a \in Actors :
                call.fwd_a[a] = Forwarded(call.n_a[a], call.actor_failures)
        /\ ~call.retried /\ call.actor_failures = OutOfReach =>
            call.fwd = Forwarded(call.n, call.total_failures)

\* 40 failures of one actor against a limit of 20: 19 forwarded
C20_Witness ==
    /\ call.fn = "threshold"
    /\ ~call.retried
    /\ call.actor_failures = 20 /\ call.total_failures = OutOfReach
    /\ call.n_a[1] = 40 /\ call.fwd_a[1] = 19

\* C21 as stated: after an on_success the next failure of a message whose
\* attempts do not exceed message_failures is not forwarded, whichever
\* actor it comes from.
FirstAfterSuccess ==
    /\ call.fn = "reset"
    /\ call.last.hook = "on_failure"
    /\ call.last.after.actor # 0
    /\ call.last.tries <= call.message_failures

C21_NextFailureSuppressed == FirstAfterSuccess => ~call.last.forwarded

\* C21: on_success leaves the total counter and the succeeding actor's
\* counter at zero and every other actor's counter as it was; the next
\* failure is not forwarded if it is of the succeeding actor (or of an
\* actor whose own counter does not exceed actor_failures) and its
\* attempts do not exceed message_failures.
C21_Reset ==
    /\ call.fn = "reset" /\ call.fresh.actor # 0 =>
        /\ call._overall = 0
        /\ call._per_actor[call.fresh.actor] = 0
        /\ \A b \in Actors \ {call.fresh.actor} :
                call._per_actor[b] = call.fresh._per_actor[b]
    /\ FirstAfterSuccess =>
        (call.last.forwarded <=>
            call.last.after._per_actor[call.last.actor] > call.actor_failures
            /\ call.last.actor # call.last.after.actor)

\* the success came while every failure was being forwarded, and the same
\* actor's next failure is suppressed, another actor's counter still high
C21_Witness ==
    /\ FirstAfterSuccess
    /\ call.last.after.actor = call.last.actor
    /\ call.last.after._overall > call.total_failures
    /\ call.last.after._per_actor[call.last.actor] > call.actor_failures
    /\ \E b \in Actors : call._per_actor[b] > call.actor_failures
    /\ ~call.last.forwarded

\* C22: FrequencyMiddleware forwards the first call of each hook for an
\* actor, and drops every later call of that hook made within `timeframe`
\* of the last forwarded one.
C22_OncePerWindow ==
    call.fn = "frequency" /\ call.last.hook # "none" =>
        /\ call.last.first => call.last.forwarded
        /\ call.last.since # None /\ call.last.since <= call.timeframe =>
                ~call.last.forwarded

\* C23: within one timeframe the first failure of each exception type of
\* an actor is forwarded, and a failure of a type forwarded less than
\* `timeframe` ago is dropped (on a clock that started beyond `timeframe`).
C23_OncePerError ==
    /\ call.fn = "frequency"
    /\ call.start > call.timeframe
    /\ call.last.hook = "on_failure"
    => IF call.last.err_since = None \/ call.last.err_since > call.timeframe
       THEN call.last.forwarded ELSE ~call.last.forwarded

\* C24: two clocks that wake in the same period derive the same uid for
\* the tick, and the broker stores exactly one event for a period in which
\* a clock has emitted.
PeriodOf(at) == at \div call.period

C24_ClockDedup ==
    call.fn = "clock" =>
        /\ \A e1, e2 \in call.emitted :
                PeriodOf(e1.at) = PeriodOf(e2.at) => e1.uid = e2.uid
        /\ \A e \in call.emitted :
                Cardinality({x \in call.stored :
                                PeriodOf(x.at) = PeriodOf(e.at)}) = 1

\* C25: in any window of length `period` at most max_jobs handlers start;
\* a call waits only while max_jobs permits are held and, having waited,
\* starts `period` after an earlier start; every permit is released
\* `period` after it was acquired, whatever became of the handler.
RateStarted == IF call.fn = "rate_limit"
               THEN {j \in RateJobs : call.jobs[j].started # None} ELSE {}

StartsWithin(from, to) ==
    {k \in RateStarted : from <= call.jobs[k].started
                         /\ call.jobs[k].started < to}

RateSettled == \A j \in RateJobs : ~ReleaseDue(j) /\ ~RateWoken(j)

C25_RateLimit ==
    /\ \A j \in RateStarted :
        LET at == call.jobs[j].started
        IN  /\ Cardinality(StartsWithin(at - call.period + 1, at + 1))
                    <= call.max_jobs
            /\ at > call.jobs[j].arrived =>
                    \E k \in RateStarted : call.jobs[k].started + call.period = at
            /\ call.jobs[j].released => call.t >= at + call.period
            /\ call.t > at + call.period => call.jobs[j].released
    /\ call.fn = "rate_limit" /\ RateSettled =>
        \A j \in RateJobs : call.jobs[j].pc = "waiting" =>
            Cardinality(StartsWithin(call.t - call.period + 1, call.t + 1))
                = call.max_jobs

\* a call that had to wait has started, while the handler whose permit
\* it took is still running and another handler has failed
C25_Witness ==
    \E j, k, f \in RateStarted :
        /\ call.jobs[j].started > call.jobs[j].arrived
        /\ call.jobs[k].started + call.period = call.jobs[j].started
        /\ call.jobs[k].released /\ call.jobs[k].pc = "running"
        /\ call.jobs[f].pc = "failed" /\ call.jobs[f].released

\* C26: a handle_message task takes the per-actor permit before the global
\* one, the poll permit is held only around the fetch and by no task that
\* waits for a semaphore, and no tasks wait for each other's permits in a
\* cycle.
AllTasks == Msgs \cup {LoopId(a) : a \in Actors}

Awaits(s, x) == WaiterState(s, x) = "waiting"

Got(s, x) == WaiterState(s, x) = "woken"

HoldsActor(x, a) ==
    \/ x \in Msgs /\ Actor(x) = a
       /\ task[x].pc \in {"gate_wait", "gate_sleep", "running"}
    \/ Got(actor_sem[a], x)

HoldsGlobal(x) ==
    \/ x \in Msgs /\ task[x].pc \in {"gate_sleep", "running"}
    \/ Got(global_sem, x)

HoldsPoll(x) ==
    \/ \E a \in Actors : x = LoopId(a) /\ loop[a] = "fetch"
    \/ Got(poll_sem, x)

AwaitsAny(x) ==
    \/ Awaits(global_sem, x)
    \/ Awaits(poll_sem, x)
    \/ \E a \in Actors : Awaits(actor_sem[a], x)

\* x waits for a permit that y holds
WaitsFor(x, y) ==
    \/ Awaits(global_sem, x) /\ HoldsGlobal(y)
    \/ Awaits(poll_sem, x) /\ HoldsPoll(y)
    \/ \E a \in Actors : Awaits(actor_sem[a], x) /\ HoldsActor(y, a)

RECURSIVE Reaches(_, _, _)
Reaches(x, y, n) ==
    \/ WaitsFor(x, y)
    \/ n > 0 /\ \E z \in AllTasks : WaitsFor(x, z) /\ Reaches(z, y, n - 1)

PermitsAccounted ==
    /\ global_sem.value + Cardinality({x \in AllTasks : HoldsGlobal(x)})
            = args.max_jobs
    /\ poll_sem.value + Cardinality({x \in AllTasks : HoldsPoll(x)})
            = (IF args.max_polls # None THEN args.max_polls
               ELSE Cardinality(Actors))
    /\ \A a \in Actors :
        actor_sem[a].value + Cardinality({x \in AllTasks : HoldsActor(x, a)})
            = actor_max_jobs[a]

C26_LockOrder ==
    /\ PermitsAccounted
    /\ \A x \in AllTasks :
        /\ x \in Msgs /\ HoldsGlobal(x) => HoldsActor(x, Actor(x))
        /\ (\E a \in Actors : Awaits(actor_sem[a], x)) =>
                ~HoldsGlobal(x) /\ ~HoldsPoll(x)
        /\ HoldsPoll(x) => ~AwaitsAny(x)
                           /\ ~HoldsGlobal(x)
                           /\ \A a \in Actors : ~HoldsActor(x, a)
        /\ ~Reaches(x, x, Cardinality(AllTasks))

\* a task holds its actor's permit and waits for the global one, which
\* another task holds, while a pull loop waits for a permit as well
C26_Witness ==
    \E x, y \in Msgs :
        /\ x # y
        /\ HoldsActor(x, Actor(x)) /\ Awaits(global_sem, x)
        /\ HoldsGlobal(y) /\ task[y].pc = "running"
        /\ \E a \in Actors : AwaitsAny(LoopId(a))

\* C27: no fetch is outstanding while the actor's semaphore or the global
\* one has no free permit, and no pulled message has to wait for its
\* actor's permit.
FetchUnsaturated ==
    \A a \in Actors :
        loop[a] = "fetch" => ~locked(actor_sem[a]) /\ ~locked(global_sem)

PulledStartsAtOnce == \A m \in Msgs : task[m].pc # "wait_actor"

C27_Backpressure == FetchUnsaturated /\ PulledStartsAtOnce

\* C28: a delivery that is nak'ed for delay leaves no other trace: no
\* pulse task, no permit taken, no task started, no hook and no handler.
DelayNaked(m, n) == Has("nak_delay", m, n)

DelayNakOnly ==
    \A m \in Msgs, n \in 1 .. MaxDeliver :
        DelayNaked(m, n) =>
            /\ \A e \in hist : e.m = m /\ e.n = n =>
                    e.ev \in {"delay_check", "nak_delay"}
            /\ task[m].n = n => task[m].pc = "done" /\ task[m].pulse = "none"

DelayNakFrame ==
    \A m \in Msgs :
        (\E e \in hist' \ hist : e.ev = "nak_delay" /\ e.m = m) =>
            /\ UNCHANGED <<actor_sem, global_sem, poll_sem, bg, loop>>
            /\ \A k \in Msgs \ {m} : task'[k] = task[k] /\ msg'[k] = msg[k]
            /\ msg'[m].st \in {"stream", "dead"}

C28_DelayNakOnly == []DelayNakOnly /\ [][DelayNakFrame]_vars

\* a delivery was nak'ed for delay while another message's handler was
\* running, and the message was handled when it came again
C28_Witness ==
    \E m \in Msgs :
        /\ DelayNaked(m, 1)
        /\ Has("invoke", m, 2)
        /\ \E k \in Msgs \ {m} : \E e \in hist :
                e.ev = "invoke" /\ e.m = k /\ e.v <= msg[m].emitted

\* C29: a delivery whose payload cannot be decoded is a failure without a
\* message: the pulse is cancelled, the nak task is started with the retry
\* delay, on_failure gets ErrorContext.message = None, and neither
\* on_start nor the handler is invoked.
C29_DecodeFailure ==
    \A m \in Msgs, n \in 1 .. MaxDeliver :
        Has("fail_decode", m, n) =>
            /\ \E e \in hist :
                /\ e.ev = "nak_start" /\ e.m = m /\ e.n = n
                /\ e.v = get_nak_delay(actor_retry_delay[Actor(m)], n)
            /\ actor_middlewares[Actor(m)] => Has("on_failure", m, n)
            /\ \A e \in hist :
                e.ev = "on_failure" /\ e.m = m /\ e.n = n => e.v = None
            /\ ~Has("on_start", m, n) /\ ~Has("invoke", m, n)
            /\ ~Has("ack", m, n)
            /\ task[m].n = n => task[m].pulse # "on"

C29_Witness ==
    \E m \in Msgs :
        /\ Has("fail_decode", m, 1)
        /\ \E e \in hist : e.ev = "on_failure" /\ e.m = m /\ e.v = None
        /\ task[m].n = 1 /\ task[m].pulse = "cancelled"
        /\ \E k \in Msgs \ {m} :
            \E e \in hist : e.ev = "on_failure" /\ e.m = k /\ e.v = k

\* C30 as stated: with synchronous hooks every delivery whose handler is
\* invoked shows on_start, handler, then exactly one of on_success (after
\* the ack) and on_failure.
SyncHooks ==
    /\ call.mw.installed
    /\ \A hook \in {"on_start", "on_success", "on_failure"} :
            call.mw[hook] = "none"

Handled ==
    call.fn = "handle_message" /\ call.pc = "done" /\ call.invoked

Observed30 ==
    SelectSeq(call.triggered,
              LAMBDA e : e \in {"on_start", "handler", "on_success",
                                "on_failure"})

AckBeforeOnSuccess ==
    \A i \in DOMAIN call.triggered :
        call.triggered[i] = "on_success" =>
            \E j \in 1 .. i - 1 : call.triggered[j] = "ack"

RECURSIVE HeldUpTo(_)
HeldUpTo(n) ==
    IF n = 0 THEN 0 ELSE gate.job[n].held + HeldUpTo(n - 1)

HandedOver ==
    Cardinality({i \in DOMAIN gate.sem.waiters :
                    gate.sem.waiters[i].st = "woken"})

NobodyInside ==
    \A j \in DOMAIN gate.job : gate.job[j].pc \in {"new", "done"}

C31_GatePermits ==
    /\ \A j \in DOMAIN gate.job : gate.job[j].held \in {0, 1}
    /\ gate.sem.value + HeldUpTo(Len(gate.job)) + HandedOver = gate.capacity
    /\ NobodyInside => gate.sem.value = gate.capacity

\* a batch has finished with all permits free after one job was cancelled
\* in a warm-up round, one while it awaited the semaphore and one raised
C31_Witness ==
    /\ Len(gate.job) = 3
    /\ \A j \in DOMAIN gate.job : gate.job[j].pc = "done"
    /\ gate.sem.value = gate.capacity
    /\ \E j \in DOMAIN gate.job :
            gate.job[j].exc = "cancelled" /\ gate.job[j].at = "sleep"
    /\ \E j \in DOMAIN gate.job :
            gate.job[j].exc = "cancelled" /\ gate.job[j].at = "wait"
    /\ \E j \in DOMAIN gate.job :
            gate.job[j].exc = "error" /\ gate.job[j].at = "cs"

\* C32 as stated: a fetch timeout only makes the pull loop poll again, so a
\* loop that has met nothing but fetch timeouts has not ended.
NeverFetched(a) ==
    \A m \in Msgs : Actor(m) = a => msg[m].num_delivered = 0

FetchFailed(a) == \E e \in hist : e.ev = "fetch_error" /\ e.v = a

C32_TimeoutPollsAgain ==
    \A a \in Actors :
        NeverFetched(a) /\ ~FetchFailed(a) /\ ~cancelled =>
            loop[a] \notin {"returned", "crashed"}

\* C32: a broker error raised by the fetch of one actor ends that actor's
\* loop with its supervised tasks cancelled and the poll permit given back,
\* and listen() has cancelled every other loop; a fetch timeout never ends
\* a loop with an error, and ends it at all only in burst mode.
C32_BrokerError ==
    /\ \A a \in Actors : FetchFailed(a) =>
            /\ loop[a] = "crashed"
            /\ cancelled
            /\ \A m \in Msgs : Actor(m) = a
                    /\ task[m].pc \notin {"none", "done"} => task[m].cancel
            /\ \A b \in Actors :
                    loop[b] \in {"returned", "cancelled", "crashed"}
                    \/ loop[b] = "created"
                    \/ /\ WaiterState(poll_sem, LoopId(b)) # "waiting"
                       /\ WaiterState(global_sem, LoopId(b)) # "waiting"
                       /\ WaiterState(actor_sem[b], LoopId(b)) # "waiting"
    /\ \A a \in Actors :
            NeverFetched(a) /\ ~FetchFailed(a) /\ ~cancelled =>
                /\ loop[a] # "crashed"
                /\ loop[a] = "returned" => args.burst

\* the fetch of one actor failed while one of its handlers was running, and
\* the loop of the other actor has been cancelled
C32_Witness ==
    \E a, b \in Actors :
        /\ FetchFailed(a) /\ loop[a] = "crashed"
        /\ \E m \in Msgs : Actor(m) = a /\ task[m].cancel
        /\ b # a /\ loop[b] = "cancelled"

\* C33: cancel() never raises, however often and whenever it is called, and
\* changes nothing once wait() has completed; wait() and start() called
\* after a completed wait() fail their assertion and change nothing; and
\* used the way Actor._listen uses it the supervisor is waited for at most
\* once and never asked to start a task after its wait() has completed.
CalledWhenDone(op) ==
    call.last.op = op /\ call.last.before._done

C33_Lifecycle ==
    call.fn = "Tasks" =>
        /\ call.last.op = "cancel" => call.last.raised = "none"
        /\ CalledWhenDone("cancel") => call.t = call.last.before
        /\ CalledWhenDone("wait") =>
                call.last.raised = "AssertionError"
                /\ call.t = call.last.before
        /\ CalledWhenDone("start") =>
                call.last.raised = "AssertionError"
                /\ call.t = call.last.before
        /\ call.client = "listen" =>
                ~CalledWhenDone("start") /\ call.waits <= 1

\* cancel() was called twice, wait() has completed, and a start() made
\* afterwards was rejected
C33_Witness ==
    /\ call.fn = "Tasks" /\ call.client = "any"
    /\ call.cancels = 2 /\ call.waits >= 1
    /\ CalledWhenDone("start")
    /\ call.last.raised = "AssertionError"
    /\ Tracked(call.t) > 0

\* C34 as stated: when wait() has returned the supervisor tracks no task,
\* and when cancel() has been called no tracked task is left uncancelled.
C34_WaitDiscards ==
    call.fn = "Tasks" =>
        /\ call.last.op = "wait_return" /\ call.last.raised = "none" =>
                Tracked(call.t) = 0
        /\ call.last.op = "cancel" /\ ~call.last.before._done =>
                \A h \in Handles : h.st = "pending" => call.t._tasks[h] = 0

\* C35: a start() that is the 100th since the last clean-up drops the
\* handles of the tasks that are done and keeps the others, and the handles
\* tracked never exceed the tasks unfinished at the most recent clean-up
\* by more than 100.
Started ==
    [kind |-> "nak", st |-> "pending", snap |-> FALSE]

C35_Compaction ==
    call.fn = "Tasks" =>
        /\ Tracked(call.t) <= call.base + CLEANUP_EVERY
        /\ call.last.op = "start" /\ call.t._since_cleanup = 0 =>
                \A h \in Handles :
                    call.t._tasks[h] =
                        IF TaskDone(h) THEN 0
                        ELSE call.last.before._tasks[h]
                             + (IF h = Started THEN 1 ELSE 0)

\* the bound is met: 99 starts after a clean-up that kept one unfinished
\* task
C35_Witness ==
    /\ call.fn = "Tasks" /\ call.client = "compact"
    /\ call.base = 1
    /\ call.t._since_cleanup = CLEANUP_EVERY - 1
    /\ Tracked(call.t) = call.base + CLEANUP_EVERY

\* C36: while nothing has been cancelled, every delivery whose
\* handle_message task has ended was either acked or nak'ed (directly for a
\* delay, or by the nak task the except branch started), never both and
\* never neither.
Ended(m, n) ==
    \/ n < task[m].n
    \/ n = task[m].n /\ task[m].pc = "done"

NakPending(m, n) ==
    \E b \in bg : b.kind = "nak" /\ b.m = m /\ b.n = n

TerminalNak(m, n) ==
    Has("nak_delay", m, n) \/ Has("nak", m, n) \/ NakPending(m, n)

TerminalIssued(m, n) ==
    \/ Has("ack", m, n)
    \/ Has("nak_start", m, n)
    \/ Has("nak_delay", m, n)

C37_NoPulseAfterTerminal ==
    \A m \in Msgs :
        /\ TerminalIssued(m, task[m].n) \/ task[m].pc = "done" =>
                task[m].pulse # "on"
        /\ ~actor_pulse[Actor(m)] => task[m].pulse = "none"

\* the pulse task of one delivery was cancelled before its ack, that of
\* another before its nak, with nothing cancelled from outside
C37_Witness ==
    /\ ~cancelled
    /\ \E m \in Msgs : /\ task[m].pulse = "cancelled"
                       /\ Has("ack", m, task[m].n)
    /\ \E m \in Msgs : /\ task[m].pulse = "cancelled"
                       /\ Has("nak_start", m, task[m].n)

\* C38 as stated: the delivery that is nak'ed for the delay does not count
\* against max_deliver, so a message the broker has given up on was offered
\* to the handler max_deliver times.
Offers(m) ==
    Cardinality({n \in 1 .. MaxDeliver :
                    n <= msg[m].num_delivered /\ ~Has("nak_delay", m, n)})

C38_DelayKeepsAttempts ==
    \A m \in Msgs : msg[m].st = "dead" => Offers(m) = MaxDeliver

\* C39: under a stream of HIGH jobs that never ends, every job that came to
\* the gate, whatever its priority, enters the critical section.
Entered(j) ==
    j \in DOMAIN gate.job /\ gate.job[j].pc \in {"cs", "done"}

RequestOver == call.pc \in {"done", "raised"}

C40_InboxLifetime ==
    call.fn = "request" =>
        /\ call.published /\ ~RequestOver => call.subscribed
        /\ call.missed = 0
        /\ RequestOver => ~call.subscribed
        /\ call.pc = "unsubscribe" /\ call.err = "PublishError" =>
                call.subscribed /\ ~call.published

\* the publish failed and the call has raised with the inbox unsubscribed
C40_Witness ==
    /\ call.fn = "request"
    /\ call.pc = "raised"
    /\ call.err = "PublishError"
    /\ ~call.subscribed /\ ~call.published
    /\ call.pending # {}

====
